---- MODULE Spec2Model ----
(***************************************************************************)
(* Model of the MCP orchestrator of code-mode-toon:                        *)
(*   - MCPServerManager (src/src/components/mcp-server-manager.ts): the    *)
(*     registry of downstream servers, eager and lazy loading, the         *)
(*     handshake over a spawned subprocess or over HTTP, tool calls over    *)
(*     the subprocess's standard streams, and shutdown;                    *)
(*   - the signal handler of CodeModeServer                                *)
(*     (src/src/code-mode-toon-server.ts).                                 *)
(* One action is one turn of the event loop: a callback of the source (a    *)
(* request handler, a timer, a stdout "data" listener, a child "exit" or   *)
(* "error" listener, the continuation of an awaited fetch) together with   *)
(* the promise reactions it makes runnable, which the runtime runs before  *)
(* any other callback.                                                     *)
(***************************************************************************)
EXTENDS Integers, Sequences, FiniteSets, TLC

\* ------------------------------------------------------------------ bounds
\* Load attempts (calls of loadMCPServer) the model follows in one run.
MaxAttempts == 3
\* Load attempts followed where timers and reactions are run fairly.
MaxFairAttempts == 2
\* Concurrent callers of ensureServerLoaded.
MaxCallers == 2
\* Calls of callStdioMCP followed on one connection.
MaxCalls == 3
\* Milliseconds the clock of Date.now() advances while calls are followed.
MaxTicks == 2
\* Subprocesses alive when shutdown() is called.
MaxChildren == 3
\* Signals (SIGINT, SIGTERM) the process receives.
MaxSignals == 2
\* Milliseconds by which the model lets time pass during shutdown.
TickMs == 250
\* Characters of the strings given to the encoder.
MaxStrLen == 2
MaxStreamLen == 5
MaxChunk == 3

\* ------------------------------------------------------------- constants
\* failures >= 3 refuses a further attempt (ensureServerLoaded).
MaxFailures == 3
\* TIMEOUTS.SHUTDOWN_GRACE_MS and TIMEOUTS.FORCE_KILL_MS.
SHUTDOWN_GRACE_MS == 500
FORCE_KILL_MS == 1000

\* --------------------------------------------------------- configuration
\* The names a caller may ask for. "ghost" and "constructor" are absent from
\* the configuration.
Names == {"a", "b", "off", "ghost", "constructor"}

\* configManager.getMCPServers(): the configured names, in file order.
ConfigOrder == <<"a", "b", "off">>

ConfigNames == {ConfigOrder[i] : i \in 1..Len(ConfigOrder)}

\* The descriptors (interface MCPServer) the configuration file may hold:
\* "a" is a subprocess server, "b" an HTTP server, each lazy or not; "off" is
\* disabled.
Descriptor(n, isLazy) ==
    CASE n = "a"   -> [command |-> TRUE,  url |-> FALSE, lazy |-> isLazy, disabled |-> FALSE]
      [] n = "b"   -> [command |-> FALSE, url |-> TRUE,  lazy |-> isLazy, disabled |-> FALSE]
      [] n = "off" -> [command |-> TRUE,  url |-> FALSE, lazy |-> FALSE,  disabled |-> TRUE]

Configurations ==
    {[n \in ConfigNames |-> Descriptor(n, n \in L)] : L \in {{}, {"b"}, {"a", "b"}}}

\* The servers some operation may load.
Loadable == {"a", "b"}

\* The orchestrator's vendor tag and signature string.
ORCHESTRATOR_VENDOR == "code-mode-toon"
ORCHESTRATOR_SIGNATURE == "code-mode-toon-orchestrator-v1"

\* result.serverInfo of an initialize response: <<>> when the response
\* carries none, else its name, vendor and signature, each of them <<>> when
\* the field is missing and <<text>> otherwise. Info.own is what the
\* orchestrator itself declares, Info.other what some other server does.
Info ==
    [own   |-> <<[name |-> <<"code-mode-toon">>, vendor |-> <<ORCHESTRATOR_VENDOR>>,
                  signature |-> <<ORCHESTRATOR_SIGNATURE>>]>>,
     other |-> <<[name |-> <<"other">>, vendor |-> <<>>, signature |-> <<>>]>>]

\* What the servers declare in their initialize response: the orchestrator's
\* own identity or another one.
Identities ==
    {[n \in Loadable |-> IF n \in I THEN Info.own ELSE Info.other] : I \in {{}, {"a"}, {"b"}}}

Callers == 1..MaxCallers

\* The ways a load attempt (the promise of loadMCPServer) can be rejected.
LoadErrors ==
    {"self", "timeout_init", "timeout_list", "spawn", "list_fail", "transport", "invalid"}

\* ------------------------------------------------------------------ state
VARIABLES
    Config,          \* the configuration file's descriptors, read once
    booted,          \* loadServers has run (the client's "initialized" arrived)
    ident,           \* per server: the identity its initialize response declares
    mcpServers,      \* name -> attempt whose connection is registered, 0 = absent
    lazyServers,     \* set of names deferred for lazy loading
    serverStates,    \* name -> "none" | "loading" | "ready" | "failed"
    loadingServers,  \* name -> attempt whose promise is registered, 0 = absent
    childProcesses,  \* set of attempts whose child is in the set
    failureCounts,   \* name -> number, 0 = absent
    attempts,        \* sequence of load attempts, in the order they were started
    callers,         \* per caller: the attempt whose promise it awaits, 0 = none
    hydration,       \* the unsettled attempts a hydrateLazyServers call awaits
    returned         \* what the step just taken returned to its callers:
                     \*   res       "conn", "promise" or the error an
                     \*             ensureServerLoaded call returned, or what its
                     \*             promise delivered ("conn" or the error)
                     \*   hydrated  hydrateLazyServers returned
VARIABLES
    now,             \* Date.now()
    calls,           \* the calls of callStdioMCP on one connection, in order
    host,            \* the orchestrator process: "running", "draining", "exited"
    time,            \* milliseconds since shutdown() was called
    drains           \* per child of shutdown(): how far its drain has come
VARIABLES
    input,           \* the value given to TOONEncoder.encode
    encoded,         \* the text encode returned
    output,          \* the value TOONEncoder.decode returned for that text
    toonPc           \* "idle", "encoded" (encode has run) or "decoded"
VARIABLES
    stdout,          \* the bytes one subprocess writes on its stdout
    delivered,       \* how many of them the "data" events have delivered
    lineBuffer,      \* `buffer` of a "data" listener
    processed        \* the lines the listener has handed to JSON.parse

vars == <<Config, booted, ident, mcpServers, lazyServers, serverStates, loadingServers,
          childProcesses, failureCounts, attempts, callers, hydration, returned,
          now, calls, host, time, drains, input, encoded, output, toonPc,
          stdout, delivered, lineBuffer, processed>>

\* What the loading operations leave alone, and what the others do.
loadVars == <<Config, booted, ident, mcpServers, lazyServers, serverStates, loadingServers,
              childProcesses, failureCounts, attempts, callers, hydration, returned>>
callVars == <<now, calls>>
shutdownVars == <<host, time, drains>>
toonVars == <<input, encoded, output, toonPc>>
readVars == <<stdout, delivered, lineBuffer, processed>>

\* The registry as one value, so that an operation made of several calls
\* (loadServers, hydrateLazyServers) can be folded over it.
Registry ==
    [mcpServers |-> mcpServers, lazyServers |-> lazyServers,
     serverStates |-> serverStates, loadingServers |-> loadingServers,
     childProcesses |-> childProcesses, failureCounts |-> failureCounts,
     attempts |-> attempts]

SetRegistry(S) ==
    /\ mcpServers' = S.mcpServers
    /\ lazyServers' = S.lazyServers
    /\ serverStates' = S.serverStates
    /\ loadingServers' = S.loadingServers
    /\ childProcesses' = S.childProcesses
    /\ failureCounts' = S.failureCounts
    /\ attempts' = S.attempts

\* ------------------------------------------------------------ TOON: text
\* A text (a JavaScript string) is a sequence of characters, each a string
\* of length one; a value (null, boolean, number, string, array, object, and
\* undefined) is a record of one shape:
\*   t     "null", "bool", "num", "str", "arr", "obj" or "undef"; "throw"
\*         stands for an exception in place of a value
\*   b     the boolean
\*   s     the string, or the text String(n) of the number n
\*   keys  the field names of the object, in insertion order
\*   kids  the fields' values, or the array's items
Value(type, bool, text, names, items) ==
    [t |-> type, b |-> bool, s |-> text, keys |-> names, kids |-> items]

VNull == Value("null", FALSE, <<>>, <<>>, <<>>)
VUndef == Value("undef", FALSE, <<>>, <<>>, <<>>)
VThrow == Value("throw", FALSE, <<>>, <<>>, <<>>)
VBool(bool) == Value("bool", bool, <<>>, <<>>, <<>>)
VNum(text) == Value("num", FALSE, text, <<>>, <<>>)
VStr(text) == Value("str", FALSE, text, <<>>, <<>>)
VArr(items) == Value("arr", FALSE, <<>>, <<>>, items)
VObj(names, items) == Value("obj", FALSE, <<>>, names, items)

\* typeof v === 'object' && v !== null
IsObjectLike(v) == v.t \in {"obj", "arr"}

DigitChars == {"0", "1", "2", "3", "4", "5", "6", "7", "8", "9"}

\* \s of the regular expressions and of trim(), on the characters that occur.
SpaceChars == {" ", "\n", "\r"}

\* s.toLowerCase(), on the characters that occur here.
ToLowerCase(s) ==
    [i \in 1..Len(s) |->
        CASE s[i] = "T" -> "t" [] s[i] = "N" -> "n" [] s[i] = "F" -> "f"
          [] s[i] = "O" -> "o" [] OTHER -> s[i]]

\* s.includes(c) for a character c.
Includes(s, c) == \E i \in 1..Len(s) : s[i] = c

\* s.indexOf(c), counted from 1; 0 when absent.
IndexOf(s, c) ==
    IF Includes(s, c) THEN CHOOSE i \in 1..Len(s) : s[i] = c /\ \A j \in 1..(i - 1) : s[j] # c
    ELSE 0

\* s.slice(from), counted from 1.
SliceFrom(s, from) == SubSeq(s, from, Len(s))

\* s.search(/\S|$/): the number of leading blanks.
Indent(s) ==
    IF \A i \in 1..Len(s) : s[i] \in SpaceChars THEN Len(s)
    ELSE (CHOOSE i \in 1..Len(s) : s[i] \notin SpaceChars
                                   /\ \A j \in 1..(i - 1) : s[j] \in SpaceChars) - 1

\* s.trim()
Trim(s) ==
    IF \A i \in 1..Len(s) : s[i] \in SpaceChars THEN <<>>
    ELSE LET last == CHOOSE i \in 1..Len(s) : s[i] \notin SpaceChars
                                              /\ \A j \in (i + 1)..Len(s) : s[j] \in SpaceChars
         IN  SubSeq(s, Indent(s) + 1, last)

\* line.replace(/\r$/, '')
StripCR(s) == IF Len(s) > 0 /\ s[Len(s)] = "\r" THEN SubSeq(s, 1, Len(s) - 1) ELSE s

\* s.split(c) for a character c.
RECURSIVE Split(_, _)
Split(s, c) ==
    LET i == IndexOf(s, c) IN
    IF i = 0 THEN <<s>>
    ELSE <<SubSeq(s, 1, i - 1)>> \o Split(SliceFrom(s, i + 1), c)

\* parts.join(sep)
RECURSIVE Join(_, _)
Join(parts, sep) ==
    IF Len(parts) = 0 THEN <<>>
    ELSE IF Len(parts) = 1 THEN parts[1]
    ELSE parts[1] \o sep \o Join(Tail(parts), sep)

\* s.replace(/""/g, '"') and s.replace(/"/g, '""')
RECURSIVE UndoubleQuotes(_)
UndoubleQuotes(s) ==
    IF Len(s) = 0 THEN <<>>
    ELSE IF Len(s) >= 2 /\ s[1] = "\"" /\ s[2] = "\""
         THEN <<"\"">> \o UndoubleQuotes(SliceFrom(s, 3))
         ELSE <<s[1]>> \o UndoubleQuotes(Tail(s))

RECURSIVE DoubleQuotes(_)
DoubleQuotes(s) ==
    IF Len(s) = 0 THEN <<>>
    ELSE (IF s[1] = "\"" THEN <<"\"", "\"">> ELSE <<s[1]>>) \o DoubleQuotes(Tail(s))

\* /^\d+$/
IsDigits(s) == Len(s) > 0 /\ \A i \in 1..Len(s) : s[i] \in DigitChars

\* /^\w+$/, on the characters that occur here.
IsWord(s) ==
    /\ Len(s) > 0
    /\ \A i \in 1..Len(s) :
          s[i] \in DigitChars
                   \cup {"_", "a", "b", "c", "d", "e", "f", "g", "h", "i", "j", "k", "l", "m",
                         "n", "o", "p", "q", "r", "s", "t", "u", "v", "w", "x", "y", "z",
                         "T", "N", "F", "O"}

\* String(n) for a natural number n (a length).
RECURSIVE NatText(_)
NatText(n) ==
    LET d == <<"0", "1", "2", "3", "4", "5", "6", "7", "8", "9">>[(n % 10) + 1] IN
    IF n < 10 THEN <<d>> ELSE NatText(n \div 10) \o <<d>>

\* Number(s) for a text of digits (the count of a header).
RECURSIVE TextNat(_)
TextNat(s) ==
    IF Len(s) = 0 THEN 0
    ELSE TextNat(SubSeq(s, 1, Len(s) - 1)) * 10
         + (CHOOSE d \in 0..9 : NatText(d) = <<s[Len(s)]>>)

\* The texts String() gives for values that are not strings, and the words
\* parseValue reads.
Word ==
    [true |-> <<"t", "r", "u", "e">>,
     false |-> <<"f", "a", "l", "s", "e">>,
     null |-> <<"n", "u", "l", "l">>,
     undefined |-> <<"u", "n", "d", "e", "f", "i", "n", "e", "d">>,
     object |-> <<"[", "o", "b", "j", "e", "c", "t", " ", "O", "b", "j", "e", "c", "t", "]">>,
     NaN |-> <<"N", "a", "N">>]

\* Number(s), as the text String(Number(s)), for the texts that occur here:
\* blanks around are dropped, the empty text is 0, an optional sign, digits
\* with an optional fraction or a fraction alone; anything else is NaN.
\* (Exponents, hexadecimal and Infinity need characters the inputs lack.)
StripZerosLeft(s) ==
    IF \A i \in 1..Len(s) : s[i] = "0" THEN <<"0">>
    ELSE SliceFrom(s, CHOOSE i \in 1..Len(s) : s[i] # "0" /\ \A j \in 1..(i - 1) : s[j] = "0")

StripZerosRight(s) ==
    IF \A i \in 1..Len(s) : s[i] = "0" THEN <<>>
    ELSE SubSeq(s, 1, CHOOSE i \in 1..Len(s) : s[i] # "0" /\ \A j \in (i + 1)..Len(s) : s[j] = "0")

Magnitude(whole, frac) ==
    IF /\ \A i \in 1..Len(whole) : whole[i] \in DigitChars
       /\ \A i \in 1..Len(frac) : frac[i] \in DigitChars
       /\ Len(whole) + Len(frac) > 0
    THEN StripZerosLeft(whole)
         \o (IF StripZerosRight(frac) = <<>> THEN <<>>
             ELSE <<".">> \o StripZerosRight(frac))
    ELSE Word.NaN

UnsignedNumber(body) ==
    LET dot == IndexOf(body, ".") IN
    Magnitude(IF dot = 0 THEN body ELSE SubSeq(body, 1, dot - 1),
              IF dot = 0 THEN <<>> ELSE SliceFrom(body, dot + 1))

NumberOfTrimmed(t) ==
    IF t = <<>> THEN <<"0">>
    ELSE IF t[1] = "-"
    THEN (IF UnsignedNumber(Tail(t)) \in {Word.NaN, <<"0">>} THEN <<>> ELSE <<"-">>)
         \o UnsignedNumber(Tail(t))
    ELSE IF t[1] = "+" THEN UnsignedNumber(Tail(t))
    ELSE UnsignedNumber(t)

NumberText(s) == NumberOfTrimmed(Trim(s))

\* --------------------------------------------------------- TOON: encode
\* obj[key], undefined when the object has no such field.
Get(obj, key) ==
    IF \E i \in 1..Len(obj.keys) : obj.keys[i] = key
    THEN obj.kids[CHOOSE i \in 1..Len(obj.keys) : obj.keys[i] = key]
    ELSE VUndef

\* obj[key] = val: an existing field keeps its place.
Put(obj, key, val) ==
    IF \E i \in 1..Len(obj.keys) : obj.keys[i] = key
    THEN [obj EXCEPT !.kids[CHOOSE i \in 1..Len(obj.keys) : obj.keys[i] = key] = val]
    ELSE [obj EXCEPT !.keys = Append(@, key), !.kids = Append(@, val)]

\* String(v), with Array.prototype.join for an array: null and undefined
\* items give the empty text.
RECURSIVE StringOf(_)
RECURSIVE JoinItems(_, _)
StringOf(v) ==
    CASE v.t = "null"  -> Word.null
      [] v.t = "undef" -> Word.undefined
      [] v.t = "bool"  -> IF v.b THEN Word.true ELSE Word.false
      [] v.t = "num"   -> v.s
      [] v.t = "str"   -> v.s
      [] v.t = "obj"   -> Word.object
      [] v.t = "arr"   -> JoinItems(v.kids, <<",">>)

JoinItems(items, sep) ==
    Join([i \in 1..Len(items) |->
             IF items[i].t \in {"null", "undef"} THEN <<>> ELSE StringOf(items[i])], sep)

\* isAmbiguousString(value)
IsAmbiguousString(value) ==
    LET trimmed == Trim(value)
        unsigned == IF Len(trimmed) > 0 /\ trimmed[1] \in {"-", "+"} THEN Tail(trimmed)
                    ELSE trimmed
        dot == IndexOf(unsigned, ".")
        numericLike ==
            \/ IsDigits(unsigned)
            \/ /\ dot > 0
               /\ IsDigits(SliceFrom(unsigned, dot + 1))
               /\ dot = 1 \/ IsDigits(SubSeq(unsigned, 1, dot - 1))
        leadingZeroNumber ==
            Len(trimmed) >= 2 /\ trimmed[1] = "0" /\ trimmed[2] \in DigitChars
        booleanLike == ToLowerCase(trimmed) \in {Word.true, Word.false}
        nullLike == ToLowerCase(trimmed) = Word.null
    IN  value = <<>> \/ numericLike \/ leadingZeroNumber \/ booleanLike \/ nullLike

\* encodeScalar(value)
EncodeScalar(value) ==
    CASE value.t = "null"  -> Word.null
      [] value.t = "undef" -> <<>>
      [] value.t = "str"   -> IF IsAmbiguousString(value.s) THEN <<"'">> \o value.s
                              ELSE value.s
      [] OTHER             -> StringOf(value)

\* One row of a table: the item's values in the order of the header, a value
\* holding a comma, a double quote or a newline wrapped in double quotes.
EncodeRow(item, fields) ==
    Join([f \in 1..Len(fields) |->
             LET str == EncodeScalar(Get(item, fields[f])) IN
             IF Includes(str, ",") \/ Includes(str, "\"") \/ Includes(str, "\n")
             THEN <<"\"">> \o DoubleQuotes(str) \o <<"\"">>
             ELSE str],
         <<",">>)

\* Array.from(new Set(items.flatMap(Object.keys))): the union of the field
\* names, in first-seen order.
RECURSIVE Dedup(_, _)
Dedup(names, seen) ==
    IF Len(names) = 0 THEN seen
    ELSE Dedup(Tail(names),
               IF \E i \in 1..Len(seen) : seen[i] = names[1] THEN seen
               ELSE Append(seen, names[1]))

RECURSIVE FlatMapKeys(_)
FlatMapKeys(items) ==
    IF Len(items) = 0 THEN <<>> ELSE items[1].keys \o FlatMapKeys(Tail(items))

FieldsOf(items) == Dedup(FlatMapKeys(items), <<>>)

\* The header and the rows of a table, joined by newlines.
EncodeTable(name, items) ==
    LET fields == FieldsOf(items)
        header == name \o <<"[">> \o NatText(Len(items)) \o <<"]", "{">>
                  \o Join(fields, <<",">>) \o <<"}", ":">>
    IN  Join(<<header>> \o [i \in 1..Len(items) |-> EncodeRow(items[i], fields)], <<"\n">>)

\* flattenObject(obj, prefix): the loop over the entries from i on, result
\* holding what the entries before gave.
RECURSIVE FlattenFrom(_, _, _, _)
RECURSIVE Assign(_, _, _)
FlattenFrom(obj, prefix, i, result) ==
    IF i > Len(obj.keys) THEN result
    ELSE LET newKey == IF prefix # <<>> THEN prefix \o <<".">> \o obj.keys[i]
                       ELSE obj.keys[i]
             value == obj.kids[i]
         IN  FlattenFrom(obj, prefix, i + 1,
                 IF IsObjectLike(value)
                 THEN Assign(result, FlattenFrom(value, newKey, 1, VObj(<<>>, <<>>)), 1)
                 ELSE Put(result, newKey, value))

\* Object.assign(target, source), from the source's entry i on.
Assign(target, source, i) ==
    IF i > Len(source.keys) THEN target
    ELSE Assign(Put(target, source.keys[i], source.kids[i]), source, i + 1)

FlattenObject(obj) == FlattenFrom(obj, <<>>, 1, VObj(<<>>, <<>>))

\* encodeArrayField(name, arr)
EncodeArrayField(name, arr) ==
    IF Len(arr.kids) = 0 THEN name \o <<"[", "0", "]", ":">>
    ELSE IF \A i \in 1..Len(arr.kids) : IsObjectLike(arr.kids[i])
    THEN EncodeTable(name, [i \in 1..Len(arr.kids) |-> FlattenObject(arr.kids[i])])
    ELSE name \o <<"[">> \o NatText(Len(arr.kids)) \o <<"]", ":", " ">>
         \o JoinItems(arr.kids, <<",">>)

\* encodeArray(arr)
EncodeArray(arr) ==
    IF Len(arr.kids) = 0 THEN <<"[", "]">>
    ELSE IF \A i \in 1..Len(arr.kids) : IsObjectLike(arr.kids[i])
    THEN EncodeTable(<<>>, arr.kids)
    ELSE Join([i \in 1..Len(arr.kids) |-> EncodeScalar(arr.kids[i])], <<",">>)

\* encodeObject(obj): the lines of the entries from i on.
RECURSIVE EncodeObject(_)
RECURSIVE EncodeEntries(_, _)
EncodeEntries(obj, i) ==
    IF i > Len(obj.keys) THEN <<>>
    ELSE LET key == obj.keys[i]
             value == obj.kids[i]
             pushed ==
                 IF value.t = "arr" THEN <<EncodeArrayField(key, value)>>
                 ELSE IF value.t = "obj"
                 THEN LET child == Split(EncodeObject(value), "\n") IN
                      <<key \o <<":">>,
                        Join([l \in 1..Len(child) |-> <<" ", " ">> \o child[l]], <<"\n">>)>>
                 ELSE <<key \o <<":", " ">> \o EncodeScalar(value)>>
         IN  pushed \o EncodeEntries(obj, i + 1)

EncodeObject(obj) == Join(EncodeEntries(obj, 1), <<"\n">>)

\* TOONEncoder.encode(data)
Encode(data) ==
    IF data.t = "arr" THEN EncodeArray(data)
    ELSE IF data.t = "obj" THEN EncodeObject(data)
    ELSE StringOf(data)

\* --------------------------------------------------------- TOON: decode
\* parseValue(value)
ParseValue(value) ==
    LET lower == ToLowerCase(value) IN
    IF Len(value) > 0 /\ value[1] = "'" THEN VStr(Tail(value))
    ELSE IF value = <<>> THEN VStr(<<>>)
    ELSE IF lower = Word.null THEN VNull
    ELSE IF lower = Word.true THEN VBool(TRUE)
    ELSE IF lower = Word.false THEN VBool(FALSE)
    ELSE IF NumberText(value) # Word.NaN THEN VNum(NumberText(value))
    ELSE VStr(UndoubleQuotes(value))

\* parseCSVLine(line): the loop from character i on.
RECURSIVE CSVFrom(_, _, _, _, _)
CSVFrom(line, i, current, inQuotes, result) ==
    IF i > Len(line) THEN Append(result, Trim(current))
    ELSE LET quote == line[i] = "\""
             escaped == quote /\ inQuotes /\ i < Len(line) /\ line[i + 1] = "\""
             comma == line[i] = "," /\ ~inQuotes
         IN  CSVFrom(line,
                     IF escaped THEN i + 2 ELSE i + 1,
                     IF escaped THEN Append(current, "\"")
                     ELSE IF quote THEN current
                     ELSE IF comma THEN <<>>
                     ELSE Append(current, line[i]),
                     IF quote /\ ~escaped THEN ~inQuotes ELSE inQuotes,
                     IF comma THEN Append(result, Trim(current)) ELSE result)

ParseCSVLine(line) == CSVFrom(line, 1, <<>>, FALSE, <<>>)

\* The inner loop of unflatten: value stored in cursor under the path parts.
RECURSIVE SetPath(_, _, _)
SetPath(cursor, parts, value) ==
    IF Len(parts) = 1 THEN Put(cursor, parts[1], value)
    ELSE LET held == Get(cursor, parts[1])
             next == IF held.t = "obj" THEN held ELSE VObj(<<>>, <<>>)
         IN  Put(cursor, parts[1], SetPath(next, Tail(parts), value))

\* unflatten(obj): the loop over the entries from i on.
RECURSIVE UnflattenFrom(_, _, _)
UnflattenFrom(obj, i, result) ==
    IF i > Len(obj.keys) THEN result
    ELSE UnflattenFrom(obj, i + 1, SetPath(result, Split(obj.keys[i], "."), obj.kids[i]))

Unflatten(obj) == UnflattenFrom(obj, 1, VObj(<<>>, <<>>))

\* The row object of parseArrayBlock: row[field] = parseValue(values[idx]),
\* a TypeError when the row has no such value.
RECURSIVE RowFrom(_, _, _, _)
RowFrom(fields, values, f, row) ==
    IF f > Len(fields) THEN row
    ELSE RowFrom(fields, values, f + 1,
                 Put(row, fields[f],
                     IF f > Len(values) THEN VThrow ELSE ParseValue(values[f])))

\* What parseArrayBlock returns for the row objects read: the rows
\* unflattened and the line after them. threw: parseValue raised a TypeError.
BlockOf(rowOf, nextIndex) ==
    [rows |-> VArr([i \in 1..Len(rowOf) |-> Unflatten(rowOf[i])]),
     nextIndex |-> nextIndex,
     threw |-> \E i \in 1..Len(rowOf) : \E f \in 1..Len(rowOf[i].kids) :
                  rowOf[i].kids[f].t = "throw"]

\* parseArrayBlock(lines, startIndex, fields, expectedCount); lines are
\* counted from 1.
ParseArrayBlock(lines, startIndex, fields, expectedCount) ==
    LET left == Len(lines) - startIndex
        n == IF expectedCount < left THEN expectedCount ELSE left
    IN  BlockOf([i \in 1..n |->
                    RowFrom(fields, ParseCSVLine(lines[startIndex + i].content), 1,
                            VObj(<<>>, <<>>))],
                startIndex + 1 + n)

\* /^\[(\d+)\]\{([^}]+)\}:$/
SimpleArrayMatch(content) ==
    LET close == IndexOf(content, "]")
        n == Len(content)
    IN  /\ n >= 7
        /\ content[1] = "["
        /\ close > 2
        /\ IsDigits(SubSeq(content, 2, close - 1))
        /\ close + 2 <= n - 2
        /\ content[close + 1] = "{"
        /\ content[n - 1] = "}" /\ content[n] = ":"
        /\ ~Includes(SubSeq(content, close + 2, n - 2), "}")

\* The groups of that match: the count and the field list.
CountOf(content) == TextNat(SubSeq(content, 2, IndexOf(content, "]") - 1))

FieldsStrOf(content) ==
    Split(SubSeq(content, IndexOf(content, "]") + 2, Len(content) - 2), ",")

\* /^(\w+)\[(\d+)\]\{([^}]+)\}:$/
NamedArrayMatch(content) ==
    LET open == IndexOf(content, "[") IN
    /\ open > 1
    /\ IsWord(SubSeq(content, 1, open - 1))
    /\ SimpleArrayMatch(SliceFrom(content, open))

\* /^(\w+)\[0\]:$/
EmptyArrayMatch(content) ==
    LET n == Len(content) IN
    /\ n >= 5
    /\ SubSeq(content, n - 3, n) = <<"[", "0", "]", ":">>
    /\ IsWord(SubSeq(content, 1, n - 4))

\* The table under the header line at index.
HeaderBlock(lines, index, header) ==
    ParseArrayBlock(lines, index, FieldsStrOf(header), CountOf(header))

\* The return of parseObjectBlock at a top-level table header.
Returned(threw, block) ==
    [value |-> block.rows, nextIndex |-> block.nextIndex, threw |-> threw \/ block.threw]

\* parseObjectBlock(lines, startIndex, currentIndent): the while loop from
\* line index on, obj holding what the lines before gave.
RECURSIVE ObjectBlockFrom(_, _, _, _, _)
RECURSIVE ObjectBlockLine(_, _, _, _, _, _, _, _)
RECURSIVE KeyValue(_, _, _, _, _, _, _)
RECURSIVE AfterBlock(_, _, _, _, _, _)
RECURSIVE AfterChild(_, _, _, _, _, _)
ObjectBlockFrom(lines, index, currentIndent, obj, threw) ==
    IF index > Len(lines) \/ lines[index].indent < currentIndent
    THEN [value |-> obj, nextIndex |-> index, threw |-> threw]
    ELSE IF lines[index].indent > currentIndent
    THEN ObjectBlockFrom(lines, index + 1, currentIndent, obj, threw)
    ELSE ObjectBlockLine(lines, index, currentIndent, obj, threw, lines[index].content,
                         IndexOf(lines[index].content, "["),
                         IndexOf(lines[index].content, ":"))

\* One line of the block, at the block's indent.
ObjectBlockLine(lines, index, currentIndent, obj, threw, content, open, colonIdx) ==
    IF NamedArrayMatch(content)
    THEN AfterBlock(lines, currentIndent, obj, threw, SubSeq(content, 1, open - 1),
                    HeaderBlock(lines, index, SliceFrom(content, open)))
    ELSE IF EmptyArrayMatch(content)
    THEN ObjectBlockFrom(lines, index + 1, currentIndent,
             Put(obj, SubSeq(content, 1, Len(content) - 4), VArr(<<>>)), threw)
    ELSE IF SimpleArrayMatch(content)
    THEN Returned(threw, HeaderBlock(lines, index, content))
    ELSE IF colonIdx = 0
    THEN ObjectBlockFrom(lines, index + 1, currentIndent, obj, threw)
    ELSE KeyValue(lines, index, currentIndent, obj, threw,
                  Trim(SubSeq(content, 1, colonIdx - 1)),
                  Trim(SliceFrom(content, colonIdx + 1)))

\* A line key: valuePart, the nested object of the lines below when
\* valuePart is empty.
KeyValue(lines, index, currentIndent, obj, threw, key, valuePart) ==
    IF valuePart = <<>>
    THEN AfterChild(lines, currentIndent, obj, threw, key,
                    ObjectBlockFrom(lines, index + 1, currentIndent + 2,
                                    VObj(<<>>, <<>>), FALSE))
    ELSE ObjectBlockFrom(lines, index + 1, currentIndent,
             Put(obj, key, ParseValue(valuePart)), threw)

\* obj[name] = rows; i = nextIndex.
AfterBlock(lines, currentIndent, obj, threw, name, block) ==
    ObjectBlockFrom(lines, block.nextIndex, currentIndent, Put(obj, name, block.rows),
                    threw \/ block.threw)

\* obj[key] = value; i = nextIndex.
AfterChild(lines, currentIndent, obj, threw, key, child) ==
    ObjectBlockFrom(lines, child.nextIndex, currentIndent, Put(obj, key, child.value),
                    threw \/ child.threw)

ParseObjectBlock(lines, startIndex, currentIndent) ==
    ObjectBlockFrom(lines, startIndex, currentIndent, VObj(<<>>, <<>>), FALSE)

\* The lines decode keeps: split at newlines, a trailing \r dropped, blank
\* lines left out.
RECURSIVE KeepLines(_)
KeepLines(raw) ==
    IF Len(raw) = 0 THEN <<>>
    ELSE (IF Len(Trim(StripCR(raw[1]))) > 0
          THEN <<[indent |-> Indent(StripCR(raw[1])), content |-> Trim(StripCR(raw[1]))]>>
          ELSE <<>>) \o KeepLines(Tail(raw))

\* The value of a block, VThrow when reading it raised an exception.
OrThrow(threw, value) == IF threw THEN VThrow ELSE value

\* decode past its first test: the lines are not empty.
DecodeLines(parsedLines, firstContent) ==
    IF firstContent = <<"[", "]">> THEN VArr(<<>>)
    ELSE IF ~Includes(firstContent, ":") /\ Len(parsedLines) = 1
    THEN VArr([i \in 1..Len(Split(firstContent, ",")) |->
                  ParseValue(Split(firstContent, ",")[i])])
    ELSE IF SimpleArrayMatch(firstContent)
    THEN LET block == HeaderBlock(parsedLines, 1, firstContent)
         IN  OrThrow(block.threw, block.rows)
    ELSE LET block == ParseObjectBlock(parsedLines, 1, parsedLines[1].indent)
         IN  OrThrow(block.threw, block.value)

\* TOONEncoder.decode(toon); an exception gives VThrow.
Decode(toon) ==
    LET parsedLines == KeepLines(Split(toon, "\n")) IN
    IF Len(parsedLines) = 0 THEN VNull ELSE DecodeLines(parsedLines, parsedLines[1].content)

\* --------------------------------------------------------- TOON: inputs
\* The strings of at most n characters, over a letter, digits, and the
\* characters the format gives a meaning.
RECURSIVE StringsUpTo(_)
StringsUpTo(n) ==
    IF n = 0 THEN {<<>>}
    ELSE StringsUpTo(n - 1)
         \cup {Append(s, c) : s \in {x \in StringsUpTo(n - 1) : Len(x) = n - 1},
                               c \in {"a", "1", "0", ".", ",", "\"", "\n", "'", " "}}

\* The scalars encoded: null, the booleans, some finite numbers, the short
\* strings and the words read as another type.
Scalars ==
    {VNull, VBool(TRUE), VBool(FALSE)}
    \cup {VNum(n) : n \in {<<"0">>, <<"1">>, <<"-", "1">>, <<"1", ".", "5">>, <<"1", "0">>}}
    \cup {VStr(s) : s \in StringsUpTo(MaxStrLen)
                          \cup {Word.true, Word.false, Word.null, <<"T", "r", "u", "e">>}}

\* The field names of the objects encoded.
Key == [a |-> <<"a">>, b |-> <<"b">>, c |-> <<"c">>]

\* The values encoded: each scalar v alone and in each place a value can
\* take: in a scalar array, in an object field, in a nested object, in a
\* scalar array held by a field, in a row of a table (top-level or held by a
\* field, the items flat or nested, with equal or different fields).
One == VNum(<<"1">>)

Shapes(v) ==
    {v,
     VArr(<<v>>),
     VArr(<<v, One>>),
     VObj(<<Key.a>>, <<v>>),
     VObj(<<Key.a, Key.b>>, <<v, One>>),
     VObj(<<Key.a>>, <<VObj(<<Key.b>>, <<v>>)>>),
     VObj(<<Key.a>>, <<VArr(<<v, One>>)>>),
     VArr(<<VObj(<<Key.a, Key.b>>, <<v, One>>)>>),
     VArr(<<VObj(<<Key.a, Key.b>>, <<One, v>>), VObj(<<Key.b, Key.c>>, <<v, One>>)>>),
     VArr(<<VObj(<<Key.a, Key.c>>, <<VObj(<<Key.b>>, <<v>>), One>>)>>),
     VObj(<<Key.a>>, <<VArr(<<VObj(<<Key.a, Key.b>>, <<v, One>>)>>)>>),
     VObj(<<Key.a>>, <<VArr(<<VObj(<<Key.a, Key.c>>, <<VObj(<<Key.b>>, <<v>>), One>>)>>)>>)}

\* Those, the three-user example and the empty array.
Inputs ==
    LET User(id, name) ==
            VObj(<<<<"i", "d">>, <<"n", "a", "m", "e">>, <<"e", "m", "a", "i", "l">>>>,
                 <<VNum(id), VStr(name), VStr(name \o <<"@">> \o <<"x">>)>>)
        Users == VArr(<<User(<<"1">>, <<"A", "l">>), User(<<"2">>, <<"B", "o">>),
                        User(<<"3">>, <<"C", "h">>)>>)
    IN  UNION {Shapes(v) : v \in Scalars}
        \cup {Users, VArr(<<>>), VObj(<<Key.a>>, <<VArr(<<>>)>>)}

\* Deep equality of two values (the order of an object's fields does not
\* count; an exception equals nothing).
RECURSIVE SameValue(_, _)
SameValue(x, y) ==
    /\ x.t = y.t
    /\ CASE x.t = "bool" -> x.b = y.b
         [] x.t \in {"num", "str"} -> x.s = y.s
         [] x.t = "arr" -> /\ Len(x.kids) = Len(y.kids)
                           /\ \A i \in 1..Len(x.kids) : SameValue(x.kids[i], y.kids[i])
         [] x.t = "obj" -> /\ Len(x.keys) = Len(y.keys)
                           /\ \A i \in 1..Len(x.keys) :
                                 /\ \E j \in 1..Len(y.keys) : y.keys[j] = x.keys[i]
                                 /\ SameValue(x.kids[i], Get(y, x.keys[i]))
         [] x.t = "throw" -> FALSE
         [] OTHER -> TRUE

\* ------------------------------------------------------- initial state
\* The ids of the handshake requests: initId = 1, and 2 for tools/list.
HandshakeIds == {1, 2}

\* Date.now() when the model starts: a value above the handshake ids.
FirstTick == 2 + 1

\* The encoder has not been called.
NoToon == input = VNull /\ encoded = <<>> /\ output = VNull /\ toonPc = "idle"

\* No subprocess output is followed.
NoRead == stdout = <<>> /\ delivered = 0 /\ lineBuffer = <<>> /\ processed = <<>>

\* No call returned in this step.
NoReturn == [res |-> "none", hydrated |-> FALSE]

Init ==
    /\ Config \in Configurations
    /\ booted = FALSE
    /\ ident \in Identities
    /\ mcpServers = [n \in Names |-> 0]
    /\ lazyServers = {}
    /\ serverStates = [n \in Names |-> "none"]
    /\ loadingServers = [n \in Names |-> 0]
    /\ childProcesses = {}
    /\ failureCounts = [n \in Names |-> 0]
    /\ attempts = <<>>
    /\ callers = [c \in Callers |-> 0]
    /\ hydration = {}
    /\ returned = NoReturn
    /\ now = FirstTick
    /\ calls = <<>>
    /\ host = "running"
    /\ time = 0
    /\ drains = <<>>
    /\ NoToon
    /\ NoRead

\* params.clientInfo of the initialize request, the same in loadStdioMCP and
\* in loadHttpMCP.
ClientInfo == [name |-> "code-mode-toon", version |-> "1.0.0"]

\* this.configManager.getMCPServers()[name]: the descriptor of a configured
\* name. The configuration is the object JSON.parse returned, so for
\* "constructor" the lookup finds the property every object inherits, a
\* value that has none of a descriptor's fields; for any other name it finds
\* nothing.
GetMCPServer(name) ==
    IF name \in ConfigNames
    THEN [defined |-> TRUE, command |-> Config[name].command,
          url |-> Config[name].url, disabled |-> Config[name].disabled]
    ELSE [defined |-> name = "constructor", command |-> FALSE,
          url |-> FALSE, disabled |-> FALSE]

\* ------------------------------------------------------- loadMCPServer
\* The state of a fresh attempt, after the synchronous part of loadStdioMCP
\* (spawn, childProcesses.add, initialize written, handshake timer armed) or
\* of loadHttpMCP (initialize POSTed).
\* or of loadMCPServer itself when the descriptor has neither a command nor a
\* url (kind "invalid": the call throws, and the reactions on its promise
\* have not run yet).
\*   p0     the promise of loadMCPServer: "pending", "ok" or a LoadErrors kind
\*   timer  the handshake timer armed: "init", "list" or "off"
\*   child  "alive", "exited", "nospawn" (spawn failed) or "none" (HTTP)
\*   sent   the handshake messages written so far, in order
\*   clientInfo  params.clientInfo of the initialize request, the first
\*               message of sent
\*   listRefused the downstream has answered the tools/list request with an
\*               error or without a tool catalog
NewAttempt(name, origin) ==
    [name |-> name, origin |-> origin,
     kind |-> IF GetMCPServer(name).command THEN "stdio"
              ELSE IF GetMCPServer(name).url THEN "http" ELSE "invalid",
     p0 |-> "pending",
     initialized |-> FALSE,
     timer |-> IF GetMCPServer(name).command THEN "init" ELSE "off",
     child |-> IF GetMCPServer(name).command THEN "alive" ELSE "none",
     killed |-> FALSE,
     sent |-> IF GetMCPServer(name).command \/ GetMCPServer(name).url
              THEN <<"initialize">> ELSE <<>>,
     clientInfo |-> ClientInfo,
     listRefused |-> FALSE]

\* loadMCPServer(name, config) called: the attempt is appended; a subprocess
\* is added to childProcesses.
LoadMCPServer(S, name, origin) ==
    LET a == Len(S.attempts) + 1 IN
    [S EXCEPT !.attempts = Append(@, NewAttempt(name, origin)),
              !.childProcesses = IF GetMCPServer(name).command THEN @ \cup {a} ELSE @]

\* --------------------------------------------------- ensureServerLoaded
\* As if no promise were ever found registered.
InFlightNone(S, name) == 0

\* this.loadingServers.get(name): the attempt whose promise is registered.
InFlight(S, name) == S.loadingServers[name]

\* As if the state were not recorded.
MarkNothing(S, name) == S

\* this.serverStates.set(name, "loading"), of loadServers and of
\* ensureServerLoaded.
MarkLoading(S, name) == [S EXCEPT !.serverStates[name] = "loading"]

\* As if the cap were one higher.
AtRetryLimitOffByOne(S, name) == S.failureCounts[name] > MaxFailures

\* failures >= 3, on the count of a Failed server.
AtRetryLimit(S, name) == S.failureCounts[name] >= MaxFailures

\* As if a call started two loads.
StartLoadTwice(S, name) ==
    LET a == Len(S.attempts) + 2
        S2 == LoadMCPServer(LoadMCPServer(MarkLoading(S, name), name, "demand"),
                            name, "demand")
    IN  [S |-> [S2 EXCEPT !.loadingServers[name] = a],
         kind |-> "join", att |-> a, err |-> "none"]

\* The end of ensureServerLoaded: the state is set to "loading", the load is
\* started and its promise registered and returned.
StartLoad(S, name) ==
    LET a == Len(S.attempts) + 1
        S2 == LoadMCPServer(MarkLoading(S, name), name, "demand")
    IN  [S |-> [S2 EXCEPT !.loadingServers[name] = a],
         kind |-> "join", att |-> a, err |-> "none"]

\* As if a call for a loading server started a load of its own.
WhileLoadingStart(S, name) == StartLoad(S, name)

\* ensureServerLoaded on a server whose state is "loading": the promise in
\* flight, or the "still loading" error when none is registered.
WhileLoading(S, name) ==
    IF InFlight(S, name) # 0
    THEN [S |-> S, kind |-> "join", att |-> InFlight(S, name), err |-> "none"]
    ELSE [S |-> S, kind |-> "err", att |-> 0, err |-> "still_loading"]

\* The body of ensureServerLoaded(name) on registry S (it holds no await): the
\* new registry and what the call returns:
\*   "conn"  the registered connection (of attempt att)
\*   "join"  the promise of attempt att (registered before, or just created)
\*   "err"   a thrown error, its kind in err
EnsureServerLoaded(S, name) ==
    IF S.mcpServers[name] # 0
    THEN [S |-> S, kind |-> "conn", att |-> S.mcpServers[name], err |-> "none"]
    ELSE IF S.serverStates[name] = "loading"
    THEN WhileLoading(S, name)
    ELSE IF S.serverStates[name] = "failed" /\ AtRetryLimit(S, name)
    THEN [S |-> S, kind |-> "err", att |-> 0, err |-> "retry_limit"]
    ELSE LET S1 == IF S.serverStates[name] = "failed"
                   THEN [S EXCEPT !.serverStates[name] = "none"]
                   ELSE S
         IN  IF ~GetMCPServer(name).defined \/ GetMCPServer(name).disabled
             THEN [S |-> S1, kind |-> "err", att |-> 0, err |-> "not_found"]
             ELSE IF InFlight(S1, name) # 0
             THEN [S |-> S1, kind |-> "join", att |-> InFlight(S1, name), err |-> "none"]
             ELSE StartLoad(S1, name)

\* What the promise of an attempt delivers to whoever awaits it.
Outcome(att) == IF att.p0 = "ok" THEN "conn" ELSE att.p0

\* A caller (a tool handler, a sandboxed script, a workflow) calls
\* ensureServerLoaded(name): it gets the connection or an error at once, or
\* awaits the promise it was handed.
EnsureLoaded(c, name) ==
    /\ booted
    /\ callers[c] = 0
    /\ LET r == EnsureServerLoaded(Registry, name) IN
        /\ Len(r.S.attempts) <= MaxAttempts
        /\ SetRegistry(r.S)
        /\ callers' = [callers EXCEPT ![c] = IF r.kind = "join" THEN r.att ELSE 0]
        /\ returned' =
              [hydrated |-> FALSE,
               res |-> CASE r.kind = "conn" -> "conn"
                         [] r.kind = "join" -> "promise"
                         [] r.kind = "err"  -> r.err]
    /\ UNCHANGED <<Config, booted, ident, hydration, callVars, shutdownVars, toonVars, readVars>>

\* ---------------------------------------------------- hydrateLazyServers
\* Array.from(this.lazyServers): the lazy names in insertion order, which is
\* the configuration's order.
RECURSIVE LazyFrom(_, _)
LazyFrom(lazy, i) ==
    IF i > Len(ConfigOrder) THEN <<>>
    ELSE IF ConfigOrder[i] \in lazy
         THEN <<ConfigOrder[i]>> \o LazyFrom(lazy, i + 1)
         ELSE LazyFrom(lazy, i + 1)

\* pending.slice(0, limit): a negative limit counts from the end of the
\* array.
Slice(seq, limit) ==
    SubSeq(seq, 1, IF limit >= Len(seq) THEN Len(seq)
                   ELSE IF limit >= 0 THEN limit
                   ELSE IF Len(seq) + limit >= 0 THEN Len(seq) + limit ELSE 0)

\* targets.map((name) => this.ensureServerLoaded(name)): the calls are made
\* one after the other, each on the registry the previous one left; H holds
\* the registry and the promises the calls returned.
RECURSIVE EnsureEach(_, _, _)
EnsureEach(H, targets, i) ==
    IF i > Len(targets) THEN H
    ELSE LET r == EnsureServerLoaded(H.S, targets[i]) IN
         EnsureEach([S |-> r.S,
                     waits |-> IF r.kind = "join" THEN H.waits \cup {r.att} ELSE H.waits],
                    targets, i + 1)

\* The attempts of P whose promise is still pending.
Unsettled(S, P) == {a \in P : S.attempts[a].p0 = "pending"}

\* hydrateLazyServers(limit); a limit above the number of lazy servers stands
\* for a call without limit. It returns at once when there is no target or
\* every promise it got has settled, and else awaits them.
HydrateLazyServers(limit) ==
    /\ booted
    /\ hydration = {}
    /\ LET targets == Slice(LazyFrom(lazyServers, 1), limit)
           H == EnsureEach([S |-> Registry, waits |-> {}], targets, 1)
       IN  /\ Len(H.S.attempts) <= MaxAttempts
           /\ SetRegistry(H.S)
           /\ hydration' = Unsettled(H.S, H.waits)
           /\ returned' = [NoReturn EXCEPT !.hydrated = (Unsettled(H.S, H.waits) = {})]
    /\ UNCHANGED <<Config, booted, ident, callers, callVars, shutdownVars, toonVars, readVars>>

\* ----------------------------------------------------------- loadServers
\* As if loadServers loaded the lazy servers too.
RECURSIVE LoadServersFromAll(_, _)
LoadServersFromAll(S, i) ==
    IF i > Len(ConfigOrder) THEN S
    ELSE IF Config[ConfigOrder[i]].disabled THEN LoadServersFromAll(S, i + 1)
    ELSE LoadServersFromAll(
             LoadMCPServer(MarkLoading(S, ConfigOrder[i]), ConfigOrder[i], "eager"),
             i + 1)

\* As if loadServers stopped at the first load it started.
RECURSIVE LoadServersFromOne(_, _)
LoadServersFromOne(S, i) ==
    IF i > Len(ConfigOrder) THEN S
    ELSE IF Config[ConfigOrder[i]].disabled THEN LoadServersFromOne(S, i + 1)
    ELSE IF Config[ConfigOrder[i]].lazy
    THEN LoadServersFromOne([S EXCEPT !.lazyServers = @ \cup {ConfigOrder[i]}], i + 1)
    ELSE LoadMCPServer(MarkLoading(S, ConfigOrder[i]), ConfigOrder[i], "eager")

RECURSIVE LoadServersFrom(_, _)
\* The loop of loadServers over the configuration entries i..end.
LoadServersFrom(S, i) ==
    IF i > Len(ConfigOrder) THEN S
    ELSE LET name == ConfigOrder[i] IN
         IF Config[name].disabled THEN LoadServersFrom(S, i + 1)
         ELSE IF Config[name].lazy
         THEN LoadServersFrom([S EXCEPT !.lazyServers = @ \cup {name}], i + 1)
         ELSE LoadServersFrom(
                  LoadMCPServer(MarkLoading(S, name), name, "eager"),
                  i + 1)

\* server.oninitialized: loadServers() runs once, when the controlling
\* client has sent its "initialized" notification, before any tool call.
LoadServers ==
    /\ ~booted
    /\ booted' = TRUE
    /\ SetRegistry(LoadServersFrom(Registry, 1))
    /\ returned' = NoReturn
    /\ UNCHANGED <<Config, ident, callers, hydration, callVars, shutdownVars, toonVars, readVars>>

\* ------------------------------------------------- the promise reactions
\* reject(err) / resolve(value) of the promise of loadMCPServer: only the
\* first settlement counts.
Settle(att, outcome) ==
    IF att.p0 = "pending" THEN [att EXCEPT !.p0 = outcome] ELSE att

\* As if a successful load recorded the state without registering the
\* connection.
OnSettledUnregistered(S, a) ==
    LET att == S.attempts[a]
        name == att.name
    IN  IF att.p0 = "ok"
        THEN [S EXCEPT !.serverStates[name] = "ready", !.failureCounts[name] = 0]
        ELSE [S EXCEPT !.serverStates[name] = "failed", !.failureCounts[name] = @ + 1]

\* As if a failed load were counted twice.
OnSettledCountingTwice(S, a) ==
    LET att == S.attempts[a]
        name == att.name
    IN  IF att.p0 = "ok"
        THEN [S EXCEPT !.mcpServers[name] = a,
                       !.lazyServers = IF att.origin = "demand" THEN @ \ {name} ELSE @,
                       !.serverStates[name] = "ready",
                       !.failureCounts[name] = 0]
        ELSE [S EXCEPT !.serverStates[name] = "failed",
                       !.failureCounts[name] = @ + 2]

\* The .then / .catch reactions on the promise of loadMCPServer, of
\* loadServers (origin "eager") and of ensureServerLoaded (origin "demand").
OnSettled(S, a) ==
    LET att == S.attempts[a]
        name == att.name
    IN  IF att.p0 = "ok"
        THEN [S EXCEPT !.mcpServers[name] = a,
                       !.lazyServers = IF att.origin = "demand" THEN @ \ {name} ELSE @,
                       !.serverStates[name] = "ready",
                       !.failureCounts[name] = 0]
        ELSE [S EXCEPT !.serverStates[name] = "failed",
                       !.failureCounts[name] = @ + 1]

\* As if there were no .finally reaction.
OnFinallyNothing(S, a) == S

\* The .finally reaction of ensureServerLoaded: loadingServers.delete(name).
OnFinally(S, a) ==
    IF S.attempts[a].origin = "demand"
    THEN [S EXCEPT !.loadingServers[S.attempts[a].name] = 0]
    ELSE S

\* A callback has run on attempt a and left it as att. When it settled the
\* promise of loadMCPServer, the reactions run in the same turn, and the
\* callers awaiting the promise of ensureServerLoaded are resumed with its
\* outcome, and so is hydrateLazyServers when it awaited no other promise.
Turn(a, att) ==
    LET settles == attempts[a].p0 = "pending" /\ att.p0 # "pending"
        S1 == [Registry EXCEPT !.attempts[a] = att]
        waiting == {c \in Callers : callers[c] = a}
    IN  /\ SetRegistry(IF settles THEN OnFinally(OnSettled(S1, a), a) ELSE S1)
        /\ callers' = IF settles THEN [c \in Callers |-> IF c \in waiting THEN 0 ELSE callers[c]]
                      ELSE callers
        /\ hydration' = IF settles THEN hydration \ {a} ELSE hydration
        /\ returned' = [res |-> IF settles /\ waiting # {} THEN Outcome(att) ELSE "none",
                        hydrated |-> settles /\ hydration = {a}]
        /\ UNCHANGED <<Config, booted, ident, callVars, shutdownVars, toonVars, readVars>>

\* The error loadMCPServer threw for a descriptor with neither a command nor
\* a url reaches the reactions on its promise.
InvalidConfig(a) ==
    /\ a \in 1..Len(attempts)
    /\ attempts[a].kind = "invalid"
    /\ attempts[a].p0 = "pending"
    /\ Turn(a, Settle(attempts[a], "invalid"))

\* --------------------------------------------------- the stdio handshake
\* child.kill(): the signal is sent; the process exits later (ChildExit).
Kill(att) == IF att.child = "alive" THEN [att EXCEPT !.killed = TRUE] ELSE att

\* send(msg): written when the child's stdin is writable.
Send(att, msg) == IF att.child = "alive" THEN [att EXCEPT !.sent = Append(@, msg)] ELSE att

\* As if the check had no name-only fallback.
IsSelfOrchestratorByTags(serverInfo) ==
    /\ serverInfo # <<>>
    /\ serverInfo[1].vendor = <<ORCHESTRATOR_VENDOR>>
    /\ serverInfo[1].signature = <<ORCHESTRATOR_SIGNATURE>>

\* isSelfOrchestrator(serverInfo) on the identity the server declares.
IsSelfOrchestrator(serverInfo) ==
    IF serverInfo = <<>> THEN FALSE
    ELSE LET nameMatch == serverInfo[1].name = <<"code-mode-toon">>
             vendorMatch == serverInfo[1].vendor = <<ORCHESTRATOR_VENDOR>>
             signatureMatch == serverInfo[1].signature = <<ORCHESTRATOR_SIGNATURE>>
         IN  \/ vendorMatch /\ signatureMatch
             \/ nameMatch /\ (vendorMatch \/ signatureMatch)
             \/ nameMatch

\* The stdout "data" listener of loadStdioMCP on the line
\* {id: 1, result: {serverInfo}}.
OnInitializeResponse(att, info) ==
    IF ~att.initialized
    THEN IF IsSelfOrchestrator(info)
         THEN Settle(Kill([att EXCEPT !.timer = "off"]), "self")
         ELSE Send(Send([att EXCEPT !.initialized = TRUE, !.timer = "list"],
                        "notifications/initialized"), "tools/list")
    ELSE att

\* The same listener on the line {id: 2, result: {tools}}.
OnToolsListResponse(att) ==
    Settle([att EXCEPT !.timer = "off"], "ok")

\* The downstream writes its initialize response, at any time it likes. (The
\* response of a server that is not the orchestrator arriving after the
\* promise has settled is StdoutInitializeLate.)
StdoutInitialize(a) ==
    /\ a \in 1..Len(attempts)
    /\ attempts[a].kind = "stdio"
    /\ attempts[a].child = "alive"
    /\ attempts[a].p0 = "pending" \/ IsSelfOrchestrator(ident[attempts[a].name])
    /\ Turn(a, OnInitializeResponse(attempts[a], ident[attempts[a].name]))

\* The initialize response of a server that is not the orchestrator arrives
\* after the promise has settled: the listener, which is still registered,
\* takes it as it would have before. It changes the attempt and its child
\* only, not the registry.
StdoutInitializeLate(a) ==
    /\ a \in 1..Len(attempts)
    /\ attempts[a].kind = "stdio"
    /\ attempts[a].child = "alive"
    /\ attempts[a].p0 # "pending" /\ ~IsSelfOrchestrator(ident[attempts[a].name])
    /\ ~attempts[a].initialized
    /\ Turn(a, OnInitializeResponse(attempts[a], ident[attempts[a].name]))

\* The downstream writes a tools/list result, at any time it likes.
StdoutToolsList(a) ==
    /\ a \in 1..Len(attempts)
    /\ attempts[a].kind = "stdio"
    /\ attempts[a].child = "alive"
    /\ Turn(a, OnToolsListResponse(attempts[a]))

\* The downstream answers the tools/list request with {id: 2, error} or with
\* a result that has no tools: the listener takes neither branch, so nothing
\* but the record of the answer changes.
StdoutToolsListRefused(a) ==
    /\ a \in 1..Len(attempts)
    /\ attempts[a].kind = "stdio"
    /\ attempts[a].child = "alive"
    /\ attempts[a].p0 = "pending"
    /\ \E i \in 1..Len(attempts[a].sent) : attempts[a].sent[i] = "tools/list"
    /\ ~attempts[a].listRefused
    /\ Turn(a, [attempts[a] EXCEPT !.listRefused = TRUE])

\* As if the handshake timers expired without rejecting the promise.
OnHandshakeTimerSilent(att) == [att EXCEPT !.timer = "off"]

\* The handshake timer fires: HANDSHAKE_TIMEOUT_MS or TOOLS_LIST_TIMEOUT_MS.
OnHandshakeTimer(att) ==
    Settle([att EXCEPT !.timer = "off"],
           IF att.timer = "init" THEN "timeout_init" ELSE "timeout_list")

HandshakeTimer(a) ==
    /\ a \in 1..Len(attempts)
    /\ attempts[a].timer # "off"
    /\ Turn(a, OnHandshakeTimer(attempts[a]))

\* child.on("error"): the process could not be spawned.
OnChildError(att) ==
    Settle([att EXCEPT !.timer = "off", !.child = "nospawn"], "spawn")

ChildError(a) ==
    /\ a \in 1..Len(attempts)
    /\ attempts[a].kind = "stdio"
    /\ attempts[a].child = "alive"
    /\ attempts[a].p0 = "pending"
    /\ ~attempts[a].initialized
    /\ Turn(a, OnChildError(attempts[a]))

\* child.on("exit"): the process has exited (by itself or after a kill).
ChildExit(a) ==
    /\ a \in 1..Len(attempts)
    /\ attempts[a].child = "alive"
    /\ attempts' = [attempts EXCEPT ![a].child = "exited"]
    /\ childProcesses' = childProcesses \ {a}
    /\ returned' = NoReturn
    /\ UNCHANGED <<Config, booted, ident, mcpServers, lazyServers, serverStates, loadingServers,
                   failureCounts, callers, hydration, callVars, shutdownVars, toonVars, readVars>>

\* ---------------------------------------------------- the HTTP handshake
\* loadHttpMCP after `await send(initialize)`: the self check, then the
\* tools/list POST.
OnHttpInitialize(att, info) ==
    IF IsSelfOrchestrator(info)
    THEN Settle(att, "self")
    ELSE [att EXCEPT !.sent = Append(@, "tools/list")]

HttpInitializeResponse(a) ==
    /\ a \in 1..Len(attempts)
    /\ attempts[a].kind = "http"
    /\ attempts[a].p0 = "pending"
    /\ attempts[a].sent = <<"initialize">>
    /\ Turn(a, OnHttpInitialize(attempts[a], ident[attempts[a].name]))

\* loadHttpMCP after `await send(tools/list)`: a catalog, or none.
OnHttpToolsList(att, hasTools) ==
    Settle([att EXCEPT !.listRefused = ~hasTools], IF hasTools THEN "ok" ELSE "list_fail")

HttpToolsListResponse(a, hasTools) ==
    /\ a \in 1..Len(attempts)
    /\ attempts[a].kind = "http"
    /\ attempts[a].p0 = "pending"
    /\ attempts[a].sent = <<"initialize", "tools/list">>
    /\ Turn(a, OnHttpToolsList(attempts[a], hasTools))

\* send() throws: a non-2xx status, a malformed body or the abort timer.
HttpFailure(a) ==
    /\ a \in 1..Len(attempts)
    /\ attempts[a].kind = "http"
    /\ attempts[a].p0 = "pending"
    /\ Turn(a, Settle(attempts[a], "transport"))

\* ------------------------------------------------------------ callStdioMCP
\* An attempt as a finished handshake left it.
SettledAttempt(name, outcome, wasKilled) ==
    [NewAttempt(name, "demand") EXCEPT
        !.p0 = outcome, !.timer = "off", !.killed = wasKilled,
        !.initialized = (outcome = "ok"),
        !.sent = IF outcome = "ok"
                 THEN <<"initialize", "notifications/initialized", "tools/list">>
                 ELSE <<"initialize">>]

\* Tool calls start on a connection ensureServerLoaded("a") has made Ready.
InitCall ==
    /\ Config = [n \in ConfigNames |-> Descriptor(n, TRUE)]
    /\ booted = TRUE
    /\ ident = [n \in Loadable |-> Info.other]
    /\ mcpServers = [n \in Names |-> IF n = "a" THEN 1 ELSE 0]
    /\ lazyServers = {"b"}
    /\ serverStates = [n \in Names |-> IF n = "a" THEN "ready" ELSE "none"]
    /\ loadingServers = [n \in Names |-> 0]
    /\ childProcesses = {1}
    /\ failureCounts = [n \in Names |-> 0]
    /\ attempts = <<SettledAttempt("a", "ok", FALSE)>>
    /\ callers = [c \in Callers |-> 0]
    /\ hydration = {}
    /\ returned = NoReturn
    /\ now = FirstTick
    /\ calls = <<>>
    /\ host = "running"
    /\ time = 0
    /\ drains = <<>>
    /\ NoToon
    /\ NoRead

\* A millisecond passes.
Tick ==
    /\ now < FirstTick + MaxTicks
    /\ now' = now + 1
    /\ UNCHANGED <<calls, loadVars, shutdownVars, toonVars, readVars>>

\* callStdioMCP(child, toolName, args): id = Date.now(), the request is
\* written, the timeout armed and the "data" listener registered.
\*   st         the promise: "pending", "resolved", "rejected" or "timeout"
\*   got        the request whose response settled the promise, 0 = none
\*   listening  the listener is registered on child.stdout
\*   answered   the downstream has answered this request
\*   reused     (history) the id is that of an earlier call that had timed
\*              out when this one was issued
\* Date.now() is the wall clock and the timeout is not tied to it here, so an
\* id may come again after a timeout.
CallStdioMCP ==
    /\ Len(calls) < MaxCalls
    /\ calls' = Append(calls, [id |-> now, st |-> "pending", got |-> 0,
                               listening |-> TRUE, answered |-> FALSE,
                               reused |-> \E i \in 1..Len(calls) :
                                             calls[i].st = "timeout" /\ calls[i].id = now])
    /\ UNCHANGED <<now, loadVars, shutdownVars, toonVars, readVars>>

\* As if a promise could be settled again: a line with the call's id settles
\* it whatever its state.
OnDataSettlingAgain(call, id, k, kind) ==
    IF call.listening /\ call.id = id
    THEN [call EXCEPT !.listening = FALSE,
                      !.st = IF kind = "result" THEN "resolved" ELSE "rejected",
                      !.got = k]
    ELSE call

\* onData of one call on a line {id, result} or {id, error} that answers
\* request k: a line with another id is passed over.
OnData(call, id, k, kind) ==
    IF call.listening /\ call.id = id
    THEN [call EXCEPT !.listening = FALSE,
                      !.st = IF @ = "pending"
                             THEN (IF kind = "result" THEN "resolved" ELSE "rejected")
                             ELSE @,
                      !.got = IF call.st = "pending" THEN k ELSE @]
    ELSE call

\* The downstream answers request k, with a result or an error: the line
\* carries the id of that request and every registered listener gets it.
StdoutResponse(k, kind) ==
    /\ k \in 1..Len(calls)
    /\ ~calls[k].answered
    /\ calls' = [c \in 1..Len(calls) |->
                    LET call == OnData(calls[c], calls[k].id, k, kind) IN
                    IF c = k THEN [call EXCEPT !.answered = TRUE] ELSE call]
    /\ UNCHANGED <<now, loadVars, shutdownVars, toonVars, readVars>>

\* As if the timeout of one call failed every call pending on the connection.
ToolTimeoutOfAll(k) ==
    /\ k \in 1..Len(calls)
    /\ calls[k].st = "pending"
    /\ calls' = [c \in 1..Len(calls) |->
                    IF calls[c].st = "pending" THEN [calls[c] EXCEPT !.st = "timeout"]
                    ELSE calls[c]]
    /\ UNCHANGED <<now, loadVars, shutdownVars, toonVars, readVars>>

\* The timeout of call k fires (TOOL_CALL_TIMEOUT_MS): the promise is
\* rejected; the listener stays registered.
ToolTimeout(k) ==
    /\ k \in 1..Len(calls)
    /\ calls[k].st = "pending"
    /\ calls' = [calls EXCEPT ![k].st = "timeout"]
    /\ UNCHANGED <<now, loadVars, shutdownVars, toonVars, readVars>>

NextCall ==
    \/ Tick
    \/ CallStdioMCP
    \/ \E k \in 1..MaxCalls, kind \in {"result", "error"} : StdoutResponse(k, kind)
    \/ \E k \in 1..MaxCalls : ToolTimeout(k)

SpecCall == InitCall /\ [][NextCall]_vars

\* ---------------------------------------------------------------- shutdown
\* Shutdown starts with up to MaxFailures attempts of "a" behind, each with
\* its child still in childProcesses: a handshake that timed out (the child
\* is not killed), or one refused as self-referential (killed, not exited
\* yet).
InitShutdown ==
    /\ Config = [n \in ConfigNames |-> Descriptor(n, TRUE)]
    /\ booted = TRUE
    /\ ident = [n \in Loadable |-> IF n = "a" THEN Info.own ELSE Info.other]
    /\ mcpServers = [n \in Names |-> 0]
    /\ lazyServers = {"a", "b"}
    /\ \E k \in 0..(IF MaxChildren < MaxFailures THEN MaxChildren ELSE MaxFailures) :
          /\ attempts \in [1..k -> {SettledAttempt("a", "timeout_init", FALSE),
                                    SettledAttempt("a", "self", TRUE)}]
          /\ childProcesses = 1..k
          /\ failureCounts = [n \in Names |-> IF n = "a" THEN k ELSE 0]
          /\ serverStates = [n \in Names |-> IF n = "a" /\ k > 0 THEN "failed" ELSE "none"]
    /\ loadingServers = [n \in Names |-> 0]
    /\ callers = [c \in Callers |-> 0]
    /\ hydration = {}
    /\ returned = NoReturn
    /\ now = FirstTick
    /\ calls = <<>>
    /\ host = "running"
    /\ time = 0
    /\ drains = <<>>
    /\ NoToon
    /\ NoRead

\* The children shutdown() drains: those of childProcesses not killed.
Targets == {a \in childProcesses : ~attempts[a].killed}

\* As if the drains ran one after the other, the first one only so far.
WriteFirst(T, msg) ==
    [a \in 1..Len(attempts) |->
        IF a \in T /\ \A b \in T : a <= b THEN Send(attempts[a], msg) ELSE attempts[a]]

\* child.stdin.write(msg) to each child of T whose stdin is writable.
WriteAll(T, msg) ==
    [a \in 1..Len(attempts) |-> IF a \in T THEN Send(attempts[a], msg) ELSE attempts[a]]

\* SIGINT or SIGTERM: cleanup() calls shutdown(), which writes the shutdown
\* request to every child not killed and waits SHUTDOWN_GRACE_MS for each.
\* With no such child Promise.all resolves at once and cleanup() goes on to
\* process.exit(0).
\*   targets  the children this call drains
\*   due      when their grace timers fire
\*   stage    "grace", or "returned" once the call has returned
\*   killDue  when the force-kill timers it armed would fire, 0 = not armed
Signal ==
    /\ host # "exited"
    /\ Len(drains) < MaxSignals
    /\ attempts' = WriteAll(Targets, "shutdown")
    /\ drains' = Append(drains,
                        [targets |-> Targets, due |-> time + SHUTDOWN_GRACE_MS,
                         stage |-> IF Targets = {} THEN "returned" ELSE "grace",
                         killDue |-> 0])
    /\ host' = IF Targets = {} THEN "exited" ELSE "draining"
    /\ UNCHANGED <<Config, booted, ident, mcpServers, lazyServers, serverStates,
                   loadingServers, childProcesses, failureCounts, callers, hydration,
                   returned, time, callVars, toonVars, readVars>>

\* The grace timers still to fire.
Waiting == {d \in 1..Len(drains) : drains[d].stage = "grace"}

\* Time passes while a shutdown() waits, up to the next timer.
Advance ==
    /\ host = "draining"
    /\ \A d \in Waiting : time < drains[d].due
    /\ time' = time + TickMs
    /\ UNCHANGED <<host, drains, loadVars, callVars, toonVars, readVars>>

\* The grace timers of call d fire: the exit notification is written to each
\* of its children, a force-kill timer is armed for each (FORCE_KILL_MS, not
\* awaited), every drain resolves, so Promise.all does, shutdown() returns,
\* and cleanup() calls process.exit(0) before any other callback runs.
GraceElapsed(d) ==
    /\ host = "draining"
    /\ d \in Waiting
    /\ drains[d].due <= time
    /\ \A e \in Waiting : drains[d].due <= drains[e].due
    /\ attempts' = WriteAll(drains[d].targets, "exit")
    /\ drains' = [drains EXCEPT ![d].stage = "returned",
                                ![d].killDue = time + FORCE_KILL_MS]
    /\ host' = "exited"
    /\ UNCHANGED <<Config, booted, ident, mcpServers, lazyServers, serverStates,
                   loadingServers, childProcesses, failureCounts, callers, hydration,
                   returned, time, callVars, toonVars, readVars>>

\* A child exits while the orchestrator runs: its "exit" listener removes it
\* from childProcesses.
ChildExitWhileUp(a) ==
    /\ host # "exited"
    /\ ChildExit(a)

NextShutdown ==
    \/ Signal
    \/ Advance
    \/ \E d \in 1..MaxSignals : GraceElapsed(d)
    \/ \E a \in 1..MaxChildren : ChildExitWhileUp(a)

SpecShutdown == InitShutdown /\ [][NextShutdown]_vars

\* ----------------------------------------------------- TOON: the calls
\* The encoder is given some value, with the orchestrator started and no
\* server loaded.
InitToon ==
    /\ Config = [n \in ConfigNames |-> Descriptor(n, TRUE)]
    /\ booted = FALSE
    /\ ident = [n \in Loadable |-> Info.other]
    /\ mcpServers = [n \in Names |-> 0]
    /\ lazyServers = {}
    /\ serverStates = [n \in Names |-> "none"]
    /\ loadingServers = [n \in Names |-> 0]
    /\ childProcesses = {}
    /\ failureCounts = [n \in Names |-> 0]
    /\ attempts = <<>>
    /\ callers = [c \in Callers |-> 0]
    /\ hydration = {}
    /\ returned = NoReturn
    /\ now = FirstTick
    /\ calls = <<>>
    /\ host = "running"
    /\ time = 0
    /\ drains = <<>>
    /\ input \in Inputs
    /\ encoded = <<>>
    /\ output = VNull
    /\ toonPc = "idle"
    /\ NoRead

\* TOONEncoder.encode(input)
EncodeInput ==
    /\ toonPc = "idle"
    /\ encoded' = Encode(input)
    /\ toonPc' = "encoded"
    /\ UNCHANGED <<input, output, loadVars, callVars, shutdownVars, readVars>>

\* TOONEncoder.decode(encoded)
DecodeEncoded ==
    /\ toonPc = "encoded"
    /\ output' = Decode(encoded)
    /\ toonPc' = "decoded"
    /\ UNCHANGED <<input, encoded, loadVars, callVars, shutdownVars, readVars>>

NextToon ==
    \/ EncodeInput
    \/ DecodeEncoded

SpecToon == InitToon /\ [][NextToon]_vars

\* ================================================================ claims
\* The attempts made for server n, and those of them still unsettled or failed.
AttemptsOf(n) == {a \in 1..Len(attempts) : attempts[a].name = n}

UnsettledOf(n) == {a \in AttemptsOf(n) : attempts[a].p0 = "pending"}

FailedOf(n) == {a \in AttemptsOf(n) : attempts[a].p0 \in LoadErrors}

\* The callers awaiting a promise of ensureServerLoaded for server n.
AwaitingOf(n) == {c \in Callers : callers[c] # 0 /\ attempts[callers[c]].name = n}

\* C1: concurrent ensureLoaded calls for the same lazy server that is not
\* loaded yet share one handshake: while a load of it started on demand is
\* unsettled, a further call starts nothing and returns the promise of that
\* load; all the callers of one server await the one unsettled attempt of it;
\* and when it settles all of them are resumed in that same step, with its
\* outcome (the connection, or the one error).
C1_SingleFlight ==
    /\ [](\A n \in Loadable : Config[n].lazy =>
            /\ \A a \in UnsettledOf(n) :
                  LET r == EnsureServerLoaded(Registry, n) IN
                  r.kind = "join" /\ r.att = a /\ r.S = Registry
            /\ \A c \in AwaitingOf(n) : UnsettledOf(n) = {callers[c]})
    /\ [][\A n \in Loadable : \A c \in AwaitingOf(n) :
            callers'[c] = 0 =>
                /\ \A d \in AwaitingOf(n) : callers'[d] = 0
                /\ returned'.res = Outcome(attempts'[callers[c]])
                /\ returned'.res \in {"conn"} \cup LoadErrors]_vars

\* C1 witness: two callers await the load of the same lazy server.
C1_Witness ==
    \E n \in Loadable : Config[n].lazy /\ Cardinality(AwaitingOf(n)) >= 2

C3_OneAttemptPerName ==
    \A n \in Names : Cardinality(UnsettledOf(n)) <= 1

\* C3 witness: a retry is in flight after two failed attempts of the same
\* server, one of them eager.
C3_Witness ==
    \E n \in Loadable :
        /\ Cardinality(FailedOf(n)) = 2
        /\ \E a \in FailedOf(n) : attempts[a].origin = "eager"
        /\ UnsettledOf(n) # {}

\* C4: once three load attempts of a server have failed, the server is Failed
\* with a failure count of 3, and ensureLoaded for it fails with the
\* retry-limit error, starts no attempt and changes nothing in the registry.
C4_RetryLimit ==
    \A n \in Names : Cardinality(FailedOf(n)) >= MaxFailures =>
        LET r == EnsureServerLoaded(Registry, n) IN
        /\ serverStates[n] = "failed"
        /\ failureCounts[n] = MaxFailures
        /\ r.kind = "err" /\ r.err = "retry_limit"
        /\ r.S = Registry

\* C4 witness: a fourth call has just been refused with the retry-limit error.
C4_Witness ==
    /\ returned.res = "retry_limit"
    /\ \E n \in Loadable : Cardinality(FailedOf(n)) = MaxFailures

\* C5: an attempt whose initialize response declared the orchestrator's own
\* identity has failed with the self-reference error (or had already failed
\* by the handshake timeout when the response came), and no tools/list
\* request was sent during it; over HTTP, an attempt on such a server never
\* sends tools/list and never succeeds.
C5_SelfReferenceFails ==
    \A a \in 1..Len(attempts) :
        LET att == attempts[a] IN
        /\ att.kind = "stdio" /\ att.killed =>
              att.p0 \in {"self", "timeout_init"} /\ \A i \in 1..Len(att.sent) : att.sent[i] # "tools/list"
        /\ att.kind = "http" /\ IsSelfOrchestrator(ident[att.name]) =>
              att.p0 # "ok" /\ \A i \in 1..Len(att.sent) : att.sent[i] # "tools/list"

\* C6: after an attempt of a server has failed with the self-reference
\* error, no new attempt of that server is started.
C6_SelfReferenceTerminal ==
    \A a, b \in 1..Len(attempts) :
        a < b /\ attempts[a].name = attempts[b].name => attempts[a].p0 # "self"

\* C7: a server whose initialize response identifies it as the orchestrator
\* itself never reaches Ready and is never entered in the registry of loaded
\* servers.
C7_SelfNeverUsable ==
    \A n \in Loadable : IsSelfOrchestrator(ident[n]) =>
        mcpServers[n] = 0 /\ serverStates[n] # "ready"

\* C8: when shutdown() has returned and the signal handler has exited the
\* host process, every subprocess that shutdown() drained has exited or has
\* been killed, and no spawned subprocess is still running unkilled.
C8_ShutdownWaitsForChildren ==
    host = "exited" =>
        \A a \in 1..Len(attempts) :
            attempts[a].kind = "stdio" => attempts[a].child # "alive" \/ attempts[a].killed

\* C9: no two calls pending at the same time on one connection have the
\* same id.
C9_FreshIds ==
    \A i, j \in 1..Len(calls) :
        i # j /\ calls[i].st = "pending" /\ calls[j].st = "pending" =>
            calls[i].id # calls[j].id

\* C10: a call completes only with the response to its own request, never
\* with another call's response.
C10_MatchedById ==
    \A k \in 1..Len(calls) : calls[k].got \in {0, k}

\* The step in which the downstream answers request k.
Answers(k) == k \in 1..Len(calls) /\ ~calls[k].answered /\ calls'[k].answered

\* The step in which the timeout of call k fires.
TimesOut(k) == k \in 1..Len(calls) /\ calls[k].st = "pending" /\ calls'[k].st = "timeout"

\* C11: a pending call can always time out, and a call settled without any
\* response carrying its id has failed with the timeout error; a call issued
\* later with the id of a timed-out call completes, when its request is
\* answered while it is pending, with that response, and the timed-out call
\* stays failed with the timeout error.
C11_TimeoutThenReuse ==
    /\ [](\A k \in 1..Len(calls) :
            /\ calls[k].st = "pending" => ENABLED ToolTimeout(k)
            /\ calls[k].st # "pending" /\ calls[k].got = 0 => calls[k].st = "timeout")
    /\ [][\A k \in 1..Len(calls) :
            Answers(k) /\ calls[k].reused /\ calls[k].st = "pending" =>
                /\ calls'[k].got = k
                /\ calls'[k].st \in {"resolved", "rejected"}
                /\ \A i \in 1..Len(calls) :
                      calls[i].st = "timeout" =>
                          calls'[i].st = "timeout" /\ calls'[i].got = 0]_vars

\* C11 witness: a call issued with the id of a timed-out call, which got no
\* response, has been resolved with the response to its own request.
C11_Witness ==
    \E i, j \in 1..Len(calls) :
        /\ i < j /\ calls[i].id = calls[j].id
        /\ calls[i].st = "timeout" /\ ~calls[i].answered
        /\ calls[j].reused /\ calls[j].st = "resolved" /\ calls[j].got = j

\* C12: the listeners registered on the connection are exactly those of the
\* calls still pending: a call that completed or timed out has none.
C12_PendingEntriesRemoved ==
    \A k \in 1..Len(calls) : calls[k].listening <=> calls[k].st = "pending"

\* C13: the timeout of a call changes that call only: the registry (the
\* connection Ready, its subprocess alive and not killed) and every other
\* call stay as they were; and on a Ready connection a further call can
\* always be issued and every unanswered request can still be answered.
C13_TimeoutIsLocal ==
    /\ [][\A k \in 1..Len(calls) : TimesOut(k) =>
            /\ UNCHANGED loadVars
            /\ serverStates["a"] = "ready" /\ mcpServers["a"] = 1
            /\ attempts[1].child = "alive" /\ ~attempts[1].killed
            /\ Len(calls') = Len(calls)
            /\ \A c \in 1..Len(calls) : c # k => calls'[c] = calls[c]]_vars
    /\ [](/\ Len(calls) < MaxCalls => ENABLED CallStdioMCP
          /\ \A k \in 1..Len(calls) :
                ~calls[k].answered => ENABLED StdoutResponse(k, "result"))

\* C13 witness: after one call timed out, another call that was pending with
\* it is still pending and a third has been resolved with its own response.
C13_Witness ==
    \E i, j, k \in 1..Len(calls) :
        /\ calls[i].st = "timeout"
        /\ calls[j].st = "pending" /\ j # i
        /\ calls[k].st = "resolved" /\ calls[k].got = k /\ k > i /\ calls[k].id # calls[i].id

\* C20: once a server is Ready its connection is registered and stays the
\* same one, and an ensureLoaded call for it returns that connection at once,
\* starts no load and changes nothing in the registry.
C20_ReadyReturnsConnection ==
    /\ [](\A n \in Names : serverStates[n] = "ready" =>
            LET r == EnsureServerLoaded(Registry, n) IN
            /\ mcpServers[n] # 0
            /\ r.kind = "conn" /\ r.att = mcpServers[n]
            /\ r.S = Registry)
    /\ [][\A n \in Names : serverStates[n] = "ready" =>
            serverStates'[n] = "ready" /\ mcpServers'[n] = mcpServers[n]]_vars

\* C20 witness: a call for a Ready server has just returned its connection,
\* with no load in flight for it.
C20_Witness ==
    /\ returned.res = "conn"
    /\ \E n \in Loadable :
          serverStates[n] = "ready" /\ mcpServers[n] # 0 /\ UnsettledOf(n) = {}
          /\ \A c \in Callers : callers[c] = 0

\* A scalar; an object whose fields are all scalars; a non-empty array whose
\* items are all objects, flat or not.
IsScalar(v) == v.t \in {"null", "bool", "num", "str"}

IsFlatObject(v) == v.t = "obj" /\ \A i \in 1..Len(v.kids) : IsScalar(v.kids[i])

IsObjectArray(v) ==
    v.t = "arr" /\ Len(v.kids) > 0 /\ \A i \in 1..Len(v.kids) : v.kids[i].t = "obj"

IsFlatTable(v) == IsObjectArray(v) /\ \A i \in 1..Len(v.kids) : IsFlatObject(v.kids[i])

IsNestedTable(v) == IsObjectArray(v) /\ \E i \in 1..Len(v.kids) : ~IsFlatObject(v.kids[i])

\* A string holding a comma, a double quote or a newline.
NeedsQuotes(v) ==
    v.t = "str" /\ (Includes(v.s, ",") \/ Includes(v.s, "\"") \/ Includes(v.s, "\n"))

\* The places a string v takes in the claim about strings: top level,
\* scalar array, object field, table row.
StringPlaces(v) ==
    {v, VArr(<<v, One>>), VObj(<<Key.a>>, <<v>>), VArr(<<VObj(<<Key.a, Key.b>>, <<v, One>>)>>)}

\* The header a table of the items is to have.
HeaderOf(name, items) ==
    name \o <<"[">> \o NatText(Len(items)) \o <<"]", "{">>
    \o Join(FieldsOf(items), <<",">>) \o <<"}", ":">>

\* C14: decode(encode(v)) equals v, in type and content, for every value.
C14_RoundTrip ==
    toonPc = "decoded" => SameValue(output, input)

\* C15: a string, ambiguous or not, decodes back to the identical string
\* wherever it occurs (top level, scalar array, object field, table row),
\* and an ambiguous one is written with the leading marker.
C15_StringsRoundTrip ==
    \A v \in {x \in Scalars : x.t = "str"} :
        toonPc = "decoded" /\ input \in StringPlaces(v) =>
            /\ SameValue(output, input)
            /\ IsAmbiguousString(v.s) => EncodeScalar(v) = <<"'">> \o v.s

\* C16: an array of n flat objects is encoded in exactly n + 1 lines: the
\* header [n]{f1,f2,...}: with the union of the field names in first-seen
\* order, then one row per item, with one value per field of the header.
C16_TableLines ==
    toonPc # "idle" /\ IsFlatTable(input) =>
        LET lines == Split(encoded, "\n") IN
        /\ Len(lines) = Len(input.kids) + 1
        /\ lines[1] = HeaderOf(<<>>, input.kids)
        /\ \A i \in 2..Len(lines) :
              Len(ParseCSVLine(lines[i])) = Len(FieldsOf(input.kids))

\* C17: in a table row a string holding a comma, a double quote or a newline
\* decodes back to the identical string, the other fields unchanged.
C17_QuotedRoundTrip ==
    toonPc = "decoded" /\ IsFlatTable(input)
    /\ (\E i \in 1..Len(input.kids) : \E f \in 1..Len(input.kids[i].kids) :
            NeedsQuotes(input.kids[i].kids[f]))
    => SameValue(output, input)

\* C18: an array of objects with nested object fields, at top level or held
\* by an object field, is encoded with the dotted keys of the flattened
\* items in its header, and decodes back to the same nested objects.
C18_NestedTables ==
    /\ toonPc = "decoded" /\ IsNestedTable(input) =>
          /\ Split(encoded, "\n")[1]
                = HeaderOf(<<>>, [i \in 1..Len(input.kids) |-> FlattenObject(input.kids[i])])
          /\ SameValue(output, input)
    /\ toonPc = "decoded" /\ input.t = "obj" =>
          \A f \in 1..Len(input.kids) : IsNestedTable(input.kids[f]) =>
              /\ Split(encoded, "\n")[1]
                    = HeaderOf(input.keys[f], [i \in 1..Len(input.kids[f].kids) |->
                                                  FlattenObject(input.kids[f].kids[i])])
              /\ SameValue(output, input)

\* C19: an object field holding an array of scalars decodes back to a field
\* of the same name holding the same array.
C19_ScalarArrayField ==
    toonPc = "decoded" /\ input.t = "obj" =>
        \A f \in 1..Len(input.kids) :
            input.kids[f].t = "arr" /\ (\A i \in 1..Len(input.kids[f].kids) :
                                            IsScalar(input.kids[f].kids[i]))
            => output.t = "obj" /\ SameValue(Get(output, input.keys[f]), input.kids[f])

\* C21: ensureLoaded on a Failed server whose failure count is below 3 clears
\* the Failed marker and starts exactly one new attempt of that server,
\* leaving the failure counts as they were; with a count of 3 or more it
\* fails with the retry-limit error and changes nothing; and a failure count
\* only ever goes down when a load of the server succeeds.
C21_RetryAfterFailure ==
    /\ [](\A n \in Names : serverStates[n] = "failed" =>
            LET r == EnsureServerLoaded(Registry, n) IN
            IF failureCounts[n] < MaxFailures
            THEN /\ r.kind = "join" /\ r.att = Len(attempts) + 1
                 /\ Len(r.S.attempts) = Len(attempts) + 1
                 /\ r.S.attempts[r.att].name = n /\ r.S.attempts[r.att].p0 = "pending"
                 /\ r.S.serverStates[n] = "loading"
                 /\ r.S.failureCounts = failureCounts
                 /\ failureCounts[n] = Cardinality(FailedOf(n))
            ELSE r.kind = "err" /\ r.err = "retry_limit" /\ r.S = Registry)
    /\ [][\A n \in Names : failureCounts'[n] < failureCounts[n] =>
            /\ failureCounts'[n] = 0
            /\ serverStates'[n] = "ready" /\ mcpServers'[n] # 0
            /\ attempts'[mcpServers'[n]].p0 = "ok"]_vars

\* C21 witness: a call has just started a new attempt of a server that
\* failed before, its failure count kept.
C21_Witness ==
    /\ returned.res = "promise"
    /\ \E n \in Loadable :
          /\ failureCounts[n] \in 1..(MaxFailures - 1)
          /\ serverStates[n] = "loading"
          /\ \E a \in UnsettledOf(n) : a = Len(attempts) /\ FailedOf(n) # {}

\* The step in which attempt a completes.
Completes(a) ==
    a \in 1..Len(attempts) /\ attempts[a].p0 = "pending" /\ attempts'[a].p0 # "pending"

\* C22: in the step in which a load attempt completes, success makes the
\* server Ready, registers the attempt's connection and clears the failure
\* count, and failure makes it Failed and raises the failure count by one,
\* whether the load was eager or on demand and however many callers awaited
\* it; until a load succeeds the count is the number of failed attempts.
C22_CompletionRecorded ==
    /\ [][\A a \in 1..MaxAttempts : Completes(a) =>
            LET n == attempts[a].name IN
            /\ \A b \in 1..Len(attempts) : b # a => attempts'[b] = attempts[b]
            /\ IF attempts'[a].p0 = "ok"
               THEN /\ serverStates'[n] = "ready"
                    /\ mcpServers'[n] = a
                    /\ failureCounts'[n] = 0
               ELSE /\ serverStates'[n] = "failed"
                    /\ mcpServers'[n] = 0
                    /\ failureCounts'[n] = failureCounts[n] + 1
            /\ \A m \in Names \ {n} :
                  /\ serverStates'[m] = serverStates[m]
                  /\ mcpServers'[m] = mcpServers[m]
                  /\ failureCounts'[m] = failureCounts[m]]_vars
    /\ [](\A n \in Names : mcpServers[n] = 0 => failureCounts[n] = Cardinality(FailedOf(n)))

\* C22 witness: an attempt that callers awaited has just failed, after an
\* eager attempt of the same server had failed: the count is 2.
C22_Witness ==
    /\ returned.res \in LoadErrors
    /\ \E n \in Loadable :
          /\ serverStates[n] = "failed" /\ failureCounts[n] = 2
          /\ attempts[Len(attempts)].name = n /\ attempts[Len(attempts)].origin = "demand"
          /\ \E a \in FailedOf(n) : attempts[a].origin = "eager"

\* C23: the promise registered for a server is that of an unsettled attempt
\* of it: the step in which an attempt completes, with success or failure,
\* leaves no promise registered for its server, and ensureLoaded never hands
\* out the promise of a settled attempt.
C23_SlotCleared ==
    /\ [](\A n \in Names :
            /\ loadingServers[n] # 0 => loadingServers[n] \in UnsettledOf(n)
            /\ LET r == EnsureServerLoaded(Registry, n) IN
               r.kind = "join" => r.S.attempts[r.att].p0 = "pending")
    /\ [][\A a \in 1..MaxAttempts :
            Completes(a) => loadingServers'[attempts[a].name] = 0]_vars

\* C23 witness: an on-demand attempt of a server failed, a retry of it
\* succeeded, and no promise is registered for the server.
C23_Witness ==
    \E n \in Loadable :
        /\ \E a \in FailedOf(n) : attempts[a].origin = "demand"
        /\ \E b \in AttemptsOf(n) : attempts[b].origin = "demand" /\ attempts[b].p0 = "ok"
        /\ loadingServers[n] = 0

EagerAttempts == {a \in 1..Len(attempts) : attempts[a].origin = "eager"}

C26_NotFound ==
    /\ [][\A c \in Callers, n \in Names :
            (n \notin ConfigNames \/ Config[n].disabled) /\ EnsureLoaded(c, n) =>
                returned'.res = "not_found" /\ Registry' = Registry]_vars
    /\ [](\A n \in ConfigNames : Config[n].disabled => AttemptsOf(n) = {})

\* C27: a hydrateLazyServers(limit) call starts or joins loads for at most
\* limit servers (none for a limit below 1), all of them servers of the lazy
\* set, and for every server of the lazy set when the limit is not below
\* their number; it returns in a step in which none of the promises it
\* awaits is pending, a promise it awaits leaves only by settling, and it
\* returns without an error whatever the outcomes were.
C27_Hydrate ==
    /\ [][\A k \in (-1)..3 : HydrateLazyServers(k) =>
            LET touched == {n \in Names : serverStates'[n] # serverStates[n]
                                           \/ AttemptsOf(n)' # AttemptsOf(n)}
            IN  /\ touched \subseteq lazyServers
                /\ Cardinality(touched) <= (IF k < 0 THEN 0 ELSE k)
                /\ Cardinality(hydration') <= (IF k < 0 THEN 0 ELSE k)
                /\ k >= Cardinality(lazyServers) =>
                      \A n \in lazyServers :
                          \/ serverStates'[n] = "loading"
                          \/ serverStates[n] = "failed" /\ AtRetryLimit(Registry, n)
                /\ returned'.hydrated = (hydration' = {})]_vars
    /\ [](\A a \in hydration : a \in 1..Len(attempts) /\ attempts[a].p0 = "pending")
    /\ [](returned.hydrated => hydration = {})
    /\ [][hydration # {} /\ hydration' # hydration =>
            \E a \in hydration : /\ Completes(a)
                                  /\ hydration' = hydration \ {a}
                                  /\ returned'.hydrated = (hydration' = {})]_vars

\* C28: a load attempt has succeeded (its connection is Ready) only when
\* the whole handshake has taken place in order: initialize sent, its
\* response received and found not to be the orchestrator's, the initialized
\* notification sent, tools/list sent, and then the catalog received.
C28_HandshakeOrder ==
    \A a \in 1..Len(attempts) : attempts[a].p0 = "ok" =>
        /\ attempts[a].sent = <<"initialize", "notifications/initialized", "tools/list">>
        /\ attempts[a].kind = "stdio" => attempts[a].initialized
        /\ ~IsSelfOrchestrator(ident[attempts[a].name])

\* C29: on both transports the tools/list request of a handshake is written
\* right after the initialized notification, which is written after the
\* initialize request: no tools/list request goes out without it.
C29_InitializedNotified ==
    \A a \in 1..Len(attempts) : \A i \in 1..Len(attempts[a].sent) :
        attempts[a].sent[i] = "tools/list" =>
            /\ i = 3
            /\ attempts[a].sent[1] = "initialize"
            /\ attempts[a].sent[2] = "notifications/initialized"

\* C30: the initialize request of every attempt, on either transport,
\* carries the orchestrator's name, its vendor tag and its signature in
\* clientInfo.
C30_ClientIdentity ==
    \A a \in 1..Len(attempts) :
        attempts[a].sent # <<>> /\ attempts[a].sent[1] = "initialize" =>
            /\ {"name", "vendor", "signature"} \subseteq DOMAIN attempts[a].clientInfo
            /\ attempts[a].clientInfo.name = "code-mode-toon"

\* ------------------------------------------------- the handshakes alone
\* Both servers are loaded at boot and declare the same serverInfo: none, or
\* any name, vendor and signature among the orchestrator's strings, a foreign
\* one and a missing field.
InitHandshake ==
    /\ Config = [n \in ConfigNames |-> Descriptor(n, FALSE)]
    /\ booted = FALSE
    /\ \E i \in {<<>>} \cup {<<[name |-> n, vendor |-> v, signature |-> g]>> :
                           n, v, g \in {<<>>, <<"code-mode-toon">>,
                                        <<ORCHESTRATOR_SIGNATURE>>, <<"other">>}} :
          ident = [n \in Loadable |-> i]
    /\ mcpServers = [n \in Names |-> 0]
    /\ lazyServers = {}
    /\ serverStates = [n \in Names |-> "none"]
    /\ loadingServers = [n \in Names |-> 0]
    /\ childProcesses = {}
    /\ failureCounts = [n \in Names |-> 0]
    /\ attempts = <<>>
    /\ callers = [c \in Callers |-> 0]
    /\ hydration = {}
    /\ returned = NoReturn
    /\ now = FirstTick
    /\ calls = <<>>
    /\ host = "running"
    /\ time = 0
    /\ drains = <<>>
    /\ NoToon
    /\ NoRead

\* The servers are started, and every event of the two handshakes may
\* happen, a late initialize response included.
NextHandshake ==
    \/ LoadServers
    \/ \E a \in 1..MaxAttempts : StdoutInitialize(a)
    \/ \E a \in 1..MaxAttempts : StdoutInitializeLate(a)
    \/ \E a \in 1..MaxAttempts : StdoutToolsList(a)
    \/ \E a \in 1..MaxAttempts : StdoutToolsListRefused(a)
    \/ \E a \in 1..MaxAttempts : HandshakeTimer(a)
    \/ \E a \in 1..MaxAttempts : ChildError(a)
    \/ \E a \in 1..MaxAttempts : ChildExit(a)
    \/ \E a \in 1..MaxAttempts : HttpInitializeResponse(a)
    \/ \E a \in 1..MaxAttempts, t \in BOOLEAN : HttpToolsListResponse(a, t)
    \/ \E a \in 1..MaxAttempts : HttpFailure(a)

SpecHandshake == InitHandshake /\ [][NextHandshake]_vars

\* The initialize response of attempt a has gone through the check.
Checked(a) ==
    \/ attempts[a].p0 = "self"
    \/ attempts[a].initialized
    \/ \E i \in 1..Len(attempts[a].sent) : attempts[a].sent[i] = "tools/list"

\* A serverInfo that names the orchestrator, or carries both its tags.
NamesOrTagsSelf(serverInfo) ==
    /\ serverInfo # <<>>
    /\ \/ serverInfo[1].name = <<"code-mode-toon">>
       \/ /\ serverInfo[1].vendor = <<ORCHESTRATOR_VENDOR>>
          /\ serverInfo[1].signature = <<ORCHESTRATOR_SIGNATURE>>

C32_HandshakeTimers ==
    /\ [](\A a \in 1..Len(attempts) :
            attempts[a].kind = "stdio" /\ attempts[a].p0 = "pending" =>
                attempts[a].timer = IF attempts[a].initialized THEN "list" ELSE "init")
    /\ [][\A a \in 1..MaxAttempts : Completes(a) =>
            /\ attempts'[a].p0 = "timeout_init" => ~attempts[a].initialized
            /\ attempts'[a].p0 = "timeout_list" => attempts[a].initialized]_vars
    /\ [](\A a \in 1..Len(attempts) :
            attempts[a].p0 # "pending" => attempts[a].timer = "off")

\* C33: on both transports, a handshake whose tools/list request the
\* downstream has answered with an error or without a catalog has failed,
\* and with the tools/list failure, not with a timeout, spawn or
\* self-reference error.
C33_ToolsListFailure ==
    \A a \in 1..Len(attempts) : attempts[a].listRefused =>
        /\ attempts[a].p0 # "pending"
        /\ attempts[a].p0 \in LoadErrors => attempts[a].p0 = "list_fail"

RECURSIVE Streams(_)
Streams(n) ==
    IF n = 0 THEN {<<>>}
    ELSE Streams(n - 1)
         \cup {Append(b, c) : b \in {x \in Streams(n - 1) : Len(x) = n - 1},
                               c \in {"x", " ", "\n"}}
         \cup (IF n < 2 THEN {}
               ELSE {b \o <<"C3", "A9">> : b \in {x \in Streams(n - 2) : Len(x) = n - 2}})

\* data.toString(): the bytes of one chunk decoded as UTF-8 on their own; a
\* byte sequence that is not a whole character gives U+FFFD.
RECURSIVE BufferToString(_)
BufferToString(data) ==
    IF data = <<>> THEN <<>>
    ELSE IF data[1] = "C3" /\ Len(data) >= 2 /\ data[2] = "A9"
    THEN <<"U+00E9">> \o BufferToString(SubSeq(data, 3, Len(data)))
    ELSE IF data[1] \in {"C3", "A9"}
    THEN <<"U+FFFD">> \o BufferToString(SliceFrom(data, 2))
    ELSE <<data[1]>> \o BufferToString(SliceFrom(data, 2))

\* The head of the "data" listeners of loadStdioMCP and of callStdioMCP:
\* buffer += data.toString(); the text is split at the newlines, the last
\* part is kept as the new buffer, and every other part that is not blank
\* goes to JSON.parse.
OnDataLines(buffer, lines, data) ==
    LET parts == Split(buffer \o BufferToString(data), "\n") IN
    [buffer |-> parts[Len(parts)],
     lines |-> lines \o SelectSeq(SubSeq(parts, 1, Len(parts) - 1),
                                  LAMBDA line : Trim(line) # <<>>)]

\* A listener is registered and the subprocess is about to write some stream.
InitRead ==
    /\ Config = [n \in ConfigNames |-> Descriptor(n, TRUE)]
    /\ booted = TRUE
    /\ ident = [n \in Loadable |-> Info.other]
    /\ mcpServers = [n \in Names |-> 0]
    /\ lazyServers = {"a", "b"}
    /\ serverStates = [n \in Names |-> "none"]
    /\ loadingServers = [n \in Names |-> 0]
    /\ childProcesses = {}
    /\ failureCounts = [n \in Names |-> 0]
    /\ attempts = <<>>
    /\ callers = [c \in Callers |-> 0]
    /\ hydration = {}
    /\ returned = NoReturn
    /\ now = FirstTick
    /\ calls = <<>>
    /\ host = "running"
    /\ time = 0
    /\ drains = <<>>
    /\ NoToon
    /\ stdout \in Streams(MaxStreamLen)
    /\ delivered = 0
    /\ lineBuffer = <<>>
    /\ processed = <<>>

\* A "data" event delivers the next size bytes of the stream.
Data(size) ==
    /\ delivered + size <= Len(stdout)
    /\ LET r == OnDataLines(lineBuffer, processed,
                            SubSeq(stdout, delivered + 1, delivered + size))
       IN  lineBuffer' = r.buffer /\ processed' = r.lines
    /\ delivered' = delivered + size
    /\ UNCHANGED <<stdout, loadVars, callVars, shutdownVars, toonVars>>

NextRead == \E size \in 1..MaxChunk : Data(size)

SpecRead == InitRead /\ [][NextRead]_vars

\* The stream delivered one whole line at a time: the listener's buffer and
\* lines after the chunks that each end with a newline, and then the
\* fragment that follows the last newline, if any.
RECURSIVE LineAtATime(_, _, _)
LineAtATime(buffer, lines, rest) ==
    IF rest = <<>> THEN [buffer |-> buffer, lines |-> lines]
    ELSE LET n == IF IndexOf(rest, "\n") = 0 THEN Len(rest) ELSE IndexOf(rest, "\n")
             r == OnDataLines(buffer, lines, SubSeq(rest, 1, n))
         IN  LineAtATime(r.buffer, r.lines, SliceFrom(rest, n + 1))

\* C35: however the stream is cut into chunks, once all of it is delivered
\* the listener has handed to JSON.parse the same lines, in the same order,
\* as when it is delivered one whole line at a time, and holds the same
\* trailing fragment; on the way the lines it has processed are the first
\* of those.
C35_ChunkingInvisible ==
    LET whole == LineAtATime(<<>>, <<>>, stdout) IN
    /\ Len(processed) <= Len(whole.lines)
    /\ processed = SubSeq(whole.lines, 1, Len(processed))
    /\ delivered = Len(stdout) => processed = whole.lines /\ lineBuffer = whole.buffer

\* C36: the failure count of a server never exceeds MaxFailures, and a
\* server whose count is MaxFailures is Failed for good: none of its attempts
\* is unsettled, and ensureServerLoaded refuses to start another one.
C36_FailureCap ==
    \A n \in Names :
        /\ failureCounts[n] <= MaxFailures
        /\ failureCounts[n] = MaxFailures =>
              /\ serverStates[n] = "failed"
              /\ mcpServers[n] = 0
              /\ UnsettledOf(n) = {}
              /\ LET r == EnsureServerLoaded(Registry, n) IN
                 r.kind = "err" /\ r.err = "retry_limit" /\ r.S = Registry

\* C36 witness: a server has failed MaxFailures times, at boot and on
\* demand, and a call for it has just been refused.
C36_Witness ==
    /\ returned.res = "retry_limit"
    /\ \E n \in Loadable :
          /\ failureCounts[n] = MaxFailures
          /\ \E a, b \in FailedOf(n) :
                attempts[a].origin = "eager" /\ attempts[b].origin = "demand"

\* C37: no server name is both lazy and loaded, which are the two lists
\* list_servers reports, and a name leaves the lazy set in exactly the steps
\* in which it becomes Ready (registered as loaded): a failed load leaves it
\* lazy.
C37_LazyOrLoaded ==
    /\ [](\A n \in Names : ~(n \in lazyServers /\ mcpServers[n] # 0))
    /\ [][\A n \in lazyServers :
            n \notin lazyServers' <=>
                serverStates[n] # "ready" /\ serverStates'[n] = "ready"]_vars
    /\ [][\A n \in lazyServers :
            serverStates[n] # "failed" /\ serverStates'[n] = "failed"
                => n \in lazyServers']_vars

\* C37 witness: of two lazy servers one has failed to load and is still
\* lazy, the other has become Ready and is loaded and no longer lazy.
C37_Witness ==
    \E n, m \in Loadable :
        /\ Config[n].lazy /\ Config[m].lazy
        /\ n \in lazyServers /\ serverStates[n] = "failed" /\ mcpServers[n] = 0
        /\ m \notin lazyServers /\ serverStates[m] = "ready" /\ mcpServers[m] # 0

\* C38: at most one subprocess spawned for a server name is alive at any
\* time: when a retry spawns a new subprocess for a name, the subprocess of
\* every earlier, failed attempt of that name is no longer running.
C38_OneChildPerName ==
    \A a, b \in 1..Len(attempts) :
        /\ attempts[a].name = attempts[b].name
        /\ attempts[a].child = "alive"
        /\ attempts[b].child = "alive"
        => a = b

\* C39: ensureServerLoaded never returns the connection of a subprocess that
\* has exited: in the step in which the subprocess of a Ready server exits,
\* the server leaves Ready and its connection is no longer registered.
C39_NoDeadConnection ==
    /\ [](\A n \in Names :
            LET r == EnsureServerLoaded(Registry, n) IN
            r.kind = "conn" => attempts[r.att].child # "exited")
    /\ [][\A n \in Names :
            /\ mcpServers[n] # 0
            /\ attempts[mcpServers[n]].child = "alive"
            /\ attempts'[mcpServers[n]].child = "exited"
            => serverStates'[n] # "ready" /\ mcpServers'[n] = 0]_vars

\* ------------------------------------------------------------------- next
Next ==
    \/ LoadServers
    \/ \E c \in Callers, n \in Names : EnsureLoaded(c, n)
    \/ \E k \in (-1)..3 : HydrateLazyServers(k)
    \/ \E a \in 1..MaxAttempts : StdoutInitialize(a)
    \/ \E a \in 1..MaxAttempts : StdoutToolsList(a)
    \/ \E a \in 1..MaxAttempts : HandshakeTimer(a)
    \/ \E a \in 1..MaxAttempts : ChildError(a)
    \/ \E a \in 1..MaxAttempts : ChildExit(a)
    \/ \E a \in 1..MaxAttempts : HttpInitializeResponse(a)
    \/ \E a \in 1..MaxAttempts, t \in BOOLEAN : HttpToolsListResponse(a, t)
    \/ \E a \in 1..MaxAttempts : HttpFailure(a)
    \/ \E a \in 1..MaxAttempts : InvalidConfig(a)

Spec == Init /\ [][Next]_vars

\* ------------------------------------------------------------- fairness
\* The orchestrator with the event loop running every timer that is due and
\* every reaction that is queued: a handshake timer that stays armed fires,
\* the abort timer of an HTTP request that stays unanswered ends it, and the
\* reactions to the error loadMCPServer threw run. What a downstream server
\* and the callers do, and when, is left to them. Up to MaxFairAttempts load
\* attempts are followed.
NextFair ==
    \/ NextHandshake
    \/ \E c \in Callers, n \in Names :
          EnsureLoaded(c, n) /\ Len(attempts') <= MaxFairAttempts
    \/ \E k \in (-1)..3 : HydrateLazyServers(k) /\ Len(attempts') <= MaxFairAttempts
    \/ \E a \in 1..MaxAttempts : InvalidConfig(a)

FairSpec ==
    /\ Init
    /\ [][NextFair]_vars
    /\ \A a \in 1..MaxAttempts :
          /\ WF_vars(HandshakeTimer(a))
          /\ WF_vars(HttpFailure(a))
          /\ WF_vars(InvalidConfig(a))

\* C40: with timers and queued reactions run fairly, every handshake attempt
\* settles, every caller awaiting the promise of ensureServerLoaded (having
\* started the load or joined it) is resumed with a connection or an error,
\* and every hydration ends.
C40_EveryCallCompletes ==
    /\ \A a \in 1..MaxAttempts :
          (a <= Len(attempts) /\ attempts[a].p0 = "pending")
              ~> (a <= Len(attempts) /\ attempts[a].p0 # "pending")
    /\ \A c \in Callers : (callers[c] # 0) ~> (callers[c] = 0)
    /\ (hydration # {}) ~> (hydration = {})

\* C40 witness: callers that awaited the load of a subprocess that never
\* answered tools/list have been resumed with the timeout error, and nobody
\* is left waiting.
C40_Witness ==
    /\ returned.res = "timeout_list"
    /\ \A c \in Callers : callers[c] = 0
    /\ \A a \in 1..Len(attempts) : attempts[a].p0 # "pending"

====
